---- MODULE Spec2Model ----
(***************************************************************************)
(* A model of the hookstate core (src/core/src/index.ts): the Store with   *)
(* its root value, edition and pending promise, the per-path tracking      *)
(* nodes (StateMethodsImpl) of every handle tree, and the operations that  *)
(* read, write and notify.                                                 *)
(***************************************************************************)
EXTENDS Integers, Sequences, FiniteSets, TLC

VARIABLES
    value,      \* Store._value: the live root value tree
    edition,    \* Store._edition
    promised,   \* Store._promised: index into wrappers, 0 when undefined
    wrappers,   \* every Promised object created so far
    hidden,     \* the identities of the value objects that carry a symbol property
    nodes,      \* the StateMethodsImpl trees: handle -> path -> node
    mounted,    \* per consumer: "never", "mounted", "unmounted"
    subs,       \* Store._subscribers: consumers whose root node is subscribed
    plugins,    \* Store._plugins, _setSubscribers and _destroySubscribers
    destroyCalls, \* history: per plugin, the arguments its onDestroy received
    reads,      \* history: paths a consumer read since its latest render
    prevReads,  \* history: paths a consumer read in earlier renders
    dirty,      \* history: consumer was notified since its latest render
    last,       \* history: the latest operation and what it did
    steps       \* history: the number of operations the run may still perform

vars == <<value, edition, promised, wrappers, hidden, nodes, mounted, subs,
          plugins, destroyCalls, reads, prevReads, dirty, last, steps>>

-----------------------------------------------------------------------------
(* Bounds of the model *)

MaxSteps == 3
TrackSteps == 4
AsyncSteps == 5
MaxPromised == 2
DestroySteps == 3
ArraySteps == 2
NotifySteps == 6
ScopedSteps == 10
ProxySteps == 4
IndexSteps == 3
FanSteps == 6
KeysSteps == 4
PluginSteps == 5
ArrayLen == 12

DestroyedEdition == -1

Keys == {"a", "b"}
Prims == {1, 2}
Errs == {"e1", "e2"}
RootPath == <<>>
Paths == {RootPath} \cup {<<k>> : k \in Keys}
Consumers == {"c1", "c2"}
Plugins == {"p1"}
Global == "g"
Handles == {Global} \cup Consumers
\* the component of the scenarios with one component, and its handles
Solo == {"c1"}
SoloHandles == Solo \cup {Global}

-----------------------------------------------------------------------------
(* Values.  Every value is a tagged record; an object carries the identity *)
(* it got when it was written into the store.                              *)

none == [t |-> "none"]
undefined == [t |-> "undef"]
Absent == [t |-> "absent"]
ValueUnusedMarker == [t |-> "unused"]
Prim(n) == [t |-> "prim", v |-> n]
Obj(id, f) == [t |-> "obj", id |-> id, f |-> f]
\* an array: e[i + 1] is the element at index i
Arr(id, e) == [t |-> "arr", id |-> id, e |-> e]
PromiseLike == [t |-> "promise"]
Bool(b) == [t |-> "bool", v |-> b]
Thrown(e) == [t |-> "error", e |-> e]
Used(isProxy, v) == [t |-> "used", proxy |-> isProxy, v |-> v]

IsObject(v) == v.t \in {"obj", "arr", "promise"}
promiseDetector(v) == v.t = "promise"
IsContainer(v) == v.t = "obj"
IsArray(v) == v.t = "arr"

Stamp(v, id) == IF v.t \in {"obj", "arr"} THEN [v EXCEPT !.id = id] ELSE v

\* A property key is a string; the key of an array index is the string of
\* its decimal digits.
DigitName == <<"0", "1", "2", "3", "4", "5", "6", "7", "8", "9">>

\* String(i)
RECURSIVE IndexName(_)
IndexName(i) ==
    IF i < 10 THEN DigitName[i + 1]
    ELSE IndexName(i \div 10) \o DigitName[(i % 10) + 1]

\* the indices an array of the model can have
Indices == 0..(ArrayLen + 2)
IsIndexKey(k) == \E i \in Indices : IndexName(i) = k
\* Number(key) of an index key
Number(k) == CHOOSE i \in Indices : IndexName(i) = k

\* the elements of the array whose handles are used
IndexPaths == {<<"2">>, <<"5">>, <<IndexName(ArrayLen - 2)>>, <<IndexName(ArrayLen)>>}
\* the paths a tracking node can stand at
TreePaths == Paths \cup IndexPaths

\* index in array
InArray(v, k) == IsArray(v) /\ IsIndexKey(k) /\ Number(k) < Len(v.e)

\* target[key]
Prop(v, k) ==
    IF IsContainer(v) /\ k \in DOMAIN v.f THEN v.f[k]
    ELSE IF InArray(v, k) THEN v.e[Number(k) + 1]
    ELSE undefined
\* key in target
HasKey(v, k) == (IsContainer(v) /\ k \in DOMAIN v.f) \/ InArray(v, k)
\* target[key] = x
PutProp(v, k, x) ==
    IF IsArray(v)
    THEN [v EXCEPT !.e = IF Number(k) < Len(@) THEN [@ EXCEPT ![Number(k) + 1] = x]
                         ELSE Append(@, x)]
    ELSE [v EXCEPT !.f = [j \in (DOMAIN v.f) \cup {k} |-> IF j = k THEN x ELSE v.f[j]]]
\* a faulty delete branch: the array element is deleted, not spliced out
DelPropLeavesHole(v, k) ==
    IF IsArray(v)
    THEN [v EXCEPT !.e = [@ EXCEPT ![Number(k) + 1] = undefined]]
    ELSE [v EXCEPT !.f = [j \in (DOMAIN v.f) \ {k} |-> v.f[j]]]

\* delete target[key], and target.splice(key, 1) when target is an array
DelProp(v, k) ==
    IF IsArray(v)
    THEN [v EXCEPT !.e = SubSeq(@, 1, Number(k)) \o SubSeq(@, Number(k) + 2, Len(@))]
    ELSE [v EXCEPT !.f = [j \in (DOMAIN v.f) \ {k} |-> v.f[j]]]

RECURSIVE GetAt(_, _)
GetAt(v, path) ==
    IF path = <<>> THEN v ELSE GetAt(Prop(v, Head(path)), Tail(path))

RECURSIVE PutAt(_, _, _)
PutAt(v, path, x) ==
    IF path = <<>> THEN x
    ELSE PutProp(v, Head(path), PutAt(Prop(v, Head(path)), Tail(path), x))

RECURSIVE DelAt(_, _)
DelAt(v, path) ==
    IF Len(path) = 1 THEN DelProp(v, Head(path))
    ELSE PutProp(v, Head(path), DelAt(Prop(v, Head(path)), Tail(path)))

\* String(n): the decimal digits of an index
RECURSIVE Digits(_)
Digits(n) == IF n < 10 THEN <<n>> ELSE Append(Digits(n \div 10), n % 10)

\* the string comparison of Array.prototype.sort without a comparator
RECURSIVE LexLess(_, _)
LexLess(x, y) ==
    IF x = <<>> THEN y # <<>>
    ELSE IF y = <<>> THEN FALSE
    ELSE IF Head(x) # Head(y) THEN Head(x) < Head(y)
    ELSE LexLess(Tail(x), Tail(y))

\* Object.keys(o).sort() for the index keys in S
RECURSIVE SortedKeys(_)
SortedKeys(S) ==
    IF S = {} THEN <<>>
    ELSE LET k == CHOOSE x \in S :
                     \A y \in S \ {x} : LexLess(Digits(x), Digits(y))
         IN  <<k>> \o SortedKeys(S \ {k})

\* array[index] = x, for an index of the array or the one behind its end
SetIndex(e, index, x) ==
    IF index < Len(e) THEN [e EXCEPT ![index + 1] = x] ELSE Append(e, x)

\* array.splice(p, 1)
Splice(e, p) ==
    IF p < Len(e) THEN SubSeq(e, 1, p) \o SubSeq(e, p + 2, Len(e)) ELSE e

Parent(path) == SubSeq(path, 1, Len(path) - 1)
LastKey(path) == path[Len(path)]

-----------------------------------------------------------------------------
(* The Store.  Its operations are written over a record s of the store's   *)
(* fields and return the record after the call, with what the call threw,  *)
(* the descriptor it returned and the write-callbacks it fired.            *)

NoError == "none"

StoreRec == [value |-> value, edition |-> edition,
             promised |-> promised, wrappers |-> wrappers]

\* new Promised(promise, onResolve, onReject, onPostResolve): without a source
\* promise the object keeps the resolver of a promise of its own
Promised(hasSource, byConstructor) ==
    [source |-> hasSource, resolver |-> ~hasSource, fullfilled |-> FALSE,
     error |-> NoError, resolved |-> FALSE, settled |-> FALSE,
     ctor |-> byConstructor]

\* Store.createPromised, assigned to this._promised by its callers
createPromised(s, hasSource, byConstructor) ==
    [s EXCEPT !.wrappers = Append(@, Promised(hasSource, byConstructor)),
              !.promised = Len(s.wrappers) + 1]

\* Store.get
StoreGet(s, path) == IF s.value = none THEN none ELSE GetAt(s.value, path)

\* the argument handed to the write-callbacks; Absent marks a deleted field
OnSetArg(path, state, val, previous, merged) ==
    [path |-> path, state |-> state, value |-> val,
     previous |-> previous, merged |-> merged]

Result(s, err, ad, calls, kind) ==
    [s |-> s, err |-> err, ad |-> ad, calls |-> calls, kind |-> kind, fx |-> <<>>]

\* SetActionDescriptor {path, actions?}; null is the "no descriptor" result
\* indexed tells that the keys of the action map are array indices, which
\* the model writes as numbers
Descriptor(path) ==
    [path |-> path, has |-> FALSE, actions |-> <<>>, null |-> FALSE, indexed |-> FALSE]
DescriptorWith(path, actions) ==
    [path |-> path, has |-> TRUE, actions |-> actions, null |-> FALSE,
     indexed |-> FALSE]
NoDescriptor ==
    [path |-> <<>>, has |-> FALSE, actions |-> <<>>, null |-> TRUE, indexed |-> FALSE]
\* {path, actions: {[p]: action}} for the key p of target
DescriptorOf(target, path, p, action) ==
    IF IsArray(target)
    THEN [DescriptorWith(path, (Number(p) :> action)) EXCEPT !.indexed = TRUE]
    ELSE DescriptorWith(path, (p :> action))

Threw(s, err) == Result(s, err, NoDescriptor, <<>>, "throw")
Skipped(s) == Result(s, NoError, NoDescriptor, <<>>, "skip")

\* Store._setSubscribers and Store._destroySubscribers: the closures that
\* Store.register added, each named by the plugin whose callback it calls
setSubscribers == plugins.setSubscribers
destroySubscribers == plugins.destroySubscribers

\* the members of a sequence, and the number of times x stands in it
Elements(seq) == {seq[i] : i \in DOMAIN seq}
Count(seq, x) == Cardinality({i \in DOMAIN seq : seq[i] = x})

\* the write-callback of plugin p ran while the store was s
Fired(p, s) == [e |-> "cb", c |-> p, edition |-> s.edition, value |-> s.value]

\* this._setSubscribers.forEach(cb => cb(params)) while the store is s
setSubscribersCalled(s) ==
    [i \in DOMAIN setSubscribers |-> Fired(setSubscribers[i], s)]

\* a faulty afterSet: the write-callbacks fire but the edition stays
afterSetKeepsEdition(r, params) ==
    IF r.s.edition # DestroyedEdition
    THEN [r EXCEPT !.calls = Append(@, params),
                   !.fx = @ \o setSubscribersCalled(r.s)]
    ELSE r

\* a faulty afterSet: the write-callbacks fire before the edition moves
afterSetFiresFirst(r, params) ==
    IF r.s.edition # DestroyedEdition
    THEN [r EXCEPT !.s.edition = @ + 1, !.calls = Append(@, params),
                   !.fx = @ \o setSubscribersCalled(r.s)]
    ELSE r

\* Store.afterSet: the edition moves and the write-callbacks fire
afterSet(r, params) ==
    IF r.s.edition # DestroyedEdition
    THEN [r EXCEPT !.s.edition = @ + 1, !.calls = Append(@, params),
                   !.fx = @ \o setSubscribersCalled([r.s EXCEPT !.edition = @ + 1])]
    ELSE r

\* a faulty pending check: it looks for a recorded resolver, not for its absence
IsBlockedByResolver(s) ==
    /\ s.promised # 0
    /\ s.wrappers[s.promised].resolver
    /\ ~s.wrappers[s.promised].fullfilled

\* a faulty pending check: every unfulfilled pending value blocks
IsBlockedWhilePending(s) ==
    /\ s.promised # 0
    /\ ~s.wrappers[s.promised].fullfilled

\* Store.set: a pending value that waits for its source promise blocks the
\* root write of an ordinary value
IsBlocked(s) ==
    /\ s.promised # 0
    /\ ~s.wrappers[s.promised].resolver
    /\ ~s.wrappers[s.promised].fullfilled

\* a promise-like object
IsPromise(v) == IsObject(v) /\ promiseDetector(v)

\* Store.set, the root branch: these values install a new pending value
MakesPending(v) == v = none \/ IsPromise(v)

\* a faulty root branch: the value fields are not deleted from the argument
RootOnSetArgKeepsValue(s, v, merged) ==
    OnSetArg(RootPath, v, v, IF s.value = none THEN Absent ELSE s.value, merged)

\* Store.set, the root branch: the argument of the write-callbacks
RootOnSetArg(s, v, merged) ==
    OnSetArg(RootPath,
             IF MakesPending(v) THEN Absent ELSE v,
             IF MakesPending(v) THEN Absent ELSE v,
             IF s.value = none THEN Absent ELSE s.value,
             merged)

\* a faulty root branch: the delete sentinel installs no pending value
RootAssignedNoPending(s, v) ==
    [(IF IsPromise(v) THEN createPromised(s, TRUE, FALSE) ELSE s)
        EXCEPT !.value = IF IsPromise(v) THEN none ELSE v]

\* Store.set, the root branch: the store after createPromised and the
\* assignment of the value
RootAssigned(s, v) ==
    [(IF v = none THEN createPromised(s, FALSE, FALSE)
      ELSE IF IsPromise(v) THEN createPromised(s, TRUE, FALSE)
      ELSE s) EXCEPT !.value = IF IsPromise(v) THEN none ELSE v]

\* a faulty root branch: the recorded resolver is never called
callResolverNever(r, prevValue) == r

\* Store.set, the root branch: a pending value without source promise has
\* its resolver called with the first present value
callResolver(r, prevValue) ==
    IF /\ prevValue = none
       /\ r.s.value # none
       /\ r.s.promised # 0
       /\ r.s.wrappers[r.s.promised].resolver
    THEN [r EXCEPT !.s.wrappers[r.s.promised].resolved = TRUE]
    ELSE r

\* Store.set, the root branch (path.length === 0)
SetRoot(s, v, merged) ==
    IF ~MakesPending(v) /\ IsBlocked(s)
    THEN Threw(s, "SetStateWhenPromised")
    ELSE callResolver(afterSet(Result(RootAssigned(s, v), NoError,
                                      Descriptor(RootPath), <<>>, "root"),
                               RootOnSetArg(s, v, merged)),
                      s.value)

\* Store.set, the nested branches (property update, delete, insert, no-op)
SetNested(s, path, v, merged) ==
    LET target == GetAt(s.value, Parent(path))
        p == LastKey(path)
        x == v
    IN  IF ~(IsContainer(target) \/ IsArray(target))
        THEN Threw(s, "TypeError")
        ELSE IF HasKey(target, p)
        THEN IF v # none
             THEN LET s1 == [s EXCEPT !.value = PutAt(@, path, x)]
                  IN  afterSet(Result(s1, NoError, Descriptor(path), <<>>, "U"),
                               OnSetArg(path, s1.value, x, Prop(target, p), merged))
             ELSE LET s1 == [s EXCEPT !.value = DelAt(@, path)]
                  IN  afterSet(Result(s1, NoError,
                                      DescriptorOf(target, Parent(path), p, "D"),
                                      <<>>, "D"),
                               OnSetArg(path, s1.value, Absent, Prop(target, p), merged))
        ELSE IF v # none
        THEN LET s1 == [s EXCEPT !.value = PutAt(@, path, x)]
             IN  afterSet(Result(s1, NoError,
                                 DescriptorOf(target, Parent(path), p, "I"),
                                 <<>>, "I"),
                          OnSetArg(path, s1.value, x, Absent, merged))
        ELSE Result(s, NoError, Descriptor(path), <<>>, "noop")

\* a faulty Store.set: the destroyed store is written like a live one
StoreSetIgnoresDestroyed(s, path, v, merged) ==
    IF path = RootPath
    THEN SetRoot(s, v, merged)
    ELSE IF IsPromise(v)
    THEN Threw(s, "SetStateNestedToPromised")
    ELSE SetNested(s, path, v, merged)

\* Store.set
StoreSet(s, path, v, merged) ==
    IF s.edition < 0
    THEN Threw(s, "SetStateWhenDestroyed")
    ELSE IF path = RootPath
    THEN SetRoot(s, v, merged)
    ELSE IF IsPromise(v)
    THEN Threw(s, "SetStateNestedToPromised")
    ELSE SetNested(s, path, v, merged)

\* a faulty onResolve: the identity comparison is inverted
onResolveInverted(s, w, r) ==
    IF s.promised # w /\ s.edition # DestroyedEdition
    THEN StoreSet([s EXCEPT !.promised = 0], RootPath, r, Absent)
    ELSE Skipped(s)

\* the onResolve callback Store.createPromised gives Promised w
onResolve(s, w, r) ==
    IF s.promised = w /\ s.edition # DestroyedEdition
    THEN StoreSet([s EXCEPT !.promised = 0], RootPath, r, Absent)
    ELSE Skipped(s)

\* a faulty onReject: it does not compare the store's pending value with its own
onRejectUnguarded(s, w) ==
    IF s.edition # DestroyedEdition
    THEN Result([s EXCEPT !.edition = @ + 1], NoError, Descriptor(RootPath),
                <<>>, "reject")
    ELSE Skipped(s)

\* a faulty onReject: it does not look whether the store is destroyed
onRejectAfterDestroy(s, w) ==
    IF s.promised = w
    THEN Result([s EXCEPT !.edition = @ + 1], NoError, Descriptor(RootPath),
                <<>>, "reject")
    ELSE Skipped(s)

\* the onReject callback Store.createPromised gives Promised w
onReject(s, w) ==
    IF s.promised = w /\ s.edition # DestroyedEdition
    THEN Result([s EXCEPT !.edition = @ + 1], NoError, Descriptor(RootPath),
                <<>>, "reject")
    ELSE Skipped(s)

-----------------------------------------------------------------------------
(* Tracking nodes (StateMethodsImpl).  A handle's tree is a function from  *)
(* paths to nodes; a node that no parent holds in childrenCreated is the   *)
(* blank node.  isMounted is the state of the owner's onSetUsed callback.  *)
(* The tree of a scoped consumer starts at the path of the handle it was   *)
(* given: its node there is scoped.  subscribers are the scoped consumers  *)
(* subscribed to the node; captured are those whose unmount effect holds   *)
(* this very node object as parentMethods.                                 *)

Node(valueSource, valueEdition) ==
    [exists |-> TRUE, valueSource |-> valueSource, valueEdition |-> valueEdition,
     valueUsed |-> ValueUnusedMarker, downgraded |-> FALSE, selfUsed |-> FALSE,
     childrenCreated |-> {}, hasChildrenUsed |-> FALSE, childrenUsed |-> {},
     subscribers |-> {}, captured |-> {}, scoped |-> FALSE]

BlankNode == [Node(undefined, 0) EXCEPT !.exists = FALSE]

BlankTree == [p \in TreePaths |-> BlankNode]

\* a node is held by the tree when every ancestor keeps it in childrenCreated
RECURSIVE Held(_, _)
Held(ns, p) ==
    \/ p = RootPath
    \/ ns[p].scoped
    \/ /\ Held(ns, Parent(p))
       /\ LastKey(p) \in ns[Parent(p)].childrenCreated \cup ns[Parent(p)].childrenUsed

\* nodes nothing refers to any more are forgotten
Collect(ns) == [p \in TreePaths |-> IF ns[p].exists /\ Held(ns, p) THEN ns[p] ELSE BlankNode]

\* a faulty reconstruct: the children used by the previous render stay used
reconstructKeepsUsed(n, valueSource, valueEdition, reset) ==
    [n EXCEPT !.valueSource = valueSource,
              !.valueEdition = valueEdition,
              !.valueUsed = ValueUnusedMarker,
              !.downgraded = FALSE,
              !.selfUsed = IF reset THEN FALSE ELSE @,
              !.childrenCreated = IF reset \/ ~n.hasChildrenUsed THEN {}
                                  ELSE n.childrenUsed]

\* StateMethodsImpl.reconstruct
reconstruct(n, valueSource, valueEdition, reset) ==
    [n EXCEPT !.valueSource = valueSource,
              !.valueEdition = valueEdition,
              !.valueUsed = ValueUnusedMarker,
              !.downgraded = FALSE,
              !.selfUsed = IF reset THEN FALSE ELSE @,
              !.childrenCreated = IF reset \/ ~n.hasChildrenUsed THEN {}
                                  ELSE n.childrenUsed,
              !.hasChildrenUsed = FALSE,
              !.childrenUsed = {}]

\* a faulty get: only objects fill the valueUsed cache
MarkUsedObjectsOnly(n) ==
    IF n.valueUsed = ValueUnusedMarker /\ IsContainer(n.valueSource)
    THEN [n EXCEPT !.valueUsed = Used(~n.downgraded, n.valueSource)]
    ELSE n

\* StateMethodsImpl.get after getUntracked returned: fill the valueUsed cache
MarkUsed(n) ==
    IF n.valueUsed = ValueUnusedMarker
    THEN [n EXCEPT !.valueUsed =
              IF n.downgraded THEN Used(FALSE, n.valueSource)
              ELSE IF IsContainer(n.valueSource) \/ IsArray(n.valueSource)
              THEN Used(TRUE, n.valueSource)
              ELSE Used(FALSE, n.valueSource),
                  !.downgraded =
              @ \/ (IsObject(n.valueSource) /\ ~IsContainer(n.valueSource)
                                            /\ ~IsArray(n.valueSource))]
    ELSE n

\* a faulty getUntracked: the snapshot is never taken again
RefreshNever(n, path, isMounted, s) == n

\* StateMethodsImpl.getUntracked, the refresh when the store's edition moved on
Refresh(n, path, isMounted, s) ==
    IF n.valueEdition # s.edition
    THEN LET n1 == [n EXCEPT !.valueSource = StoreGet(s, path),
                             !.valueEdition = s.edition]
         IN  IF isMounted
             THEN IF n1.valueUsed # ValueUnusedMarker
                  THEN MarkUsed([n1 EXCEPT !.valueUsed = ValueUnusedMarker])
                  ELSE n1
             ELSE [n1 EXCEPT !.valueUsed = ValueUnusedMarker,
                             !.hasChildrenUsed = FALSE,
                             !.childrenUsed = {},
                             !.selfUsed = FALSE]
    ELSE n

\* a faulty getUntracked: the captured rejection is not looked at
PendingErrorForgetsReason(n, allowPromised, s) ==
    IF n.valueSource = none /\ ~allowPromised
    THEN "GetStateWhenPromised"
    ELSE NoError

\* what getUntracked throws on the refreshed node n
PendingError(n, allowPromised, s) ==
    IF n.valueSource = none /\ ~allowPromised
    THEN IF s.promised # 0 /\ s.wrappers[s.promised].error # NoError
         THEN s.wrappers[s.promised].error
         ELSE "GetStateWhenPromised"
    ELSE NoError

NodeResult(ns, err, ret) == [ns |-> ns, err |-> err, ret |-> ret]

\* StateMethodsImpl.getUntracked on the node at path
getUntracked(ns, path, isMounted, s, allowPromised) ==
    LET n == Refresh(ns[path], path, isMounted, s)
        ns1 == Collect([ns EXCEPT ![path] = n])
    IN  NodeResult(ns1, PendingError(n, allowPromised, s), n.valueSource)

\* StateMethodsImpl.get once getUntracked returned r
Cached(r, path) ==
    IF r.err # NoError THEN r
    ELSE NodeResult([r.ns EXCEPT ![path] = MarkUsed(@)], NoError,
                    MarkUsed(r.ns[path]).valueUsed)

\* StateMethodsImpl.get on the node at path
get(ns, path, isMounted, s, allowPromised) ==
    Cached(getUntracked(ns, path, isMounted, s, allowPromised), path)

\* StateMethodsImpl.child followed by .self of the child (nested)
child(ns, path, key, isMounted) ==
    LET parent == ns[path]
        cp == Append(path, key)
        used == isMounted \/ parent.hasChildrenUsed
        cached == isMounted /\ parent.hasChildrenUsed /\ key \in parent.childrenUsed
        valueSource == Prop(parent.valueSource, key)
        r0 == IF key \in parent.childrenCreated
              THEN reconstruct(ns[cp], valueSource, parent.valueEdition, FALSE)
              ELSE Node(valueSource, parent.valueEdition)
        r == [r0 EXCEPT !.downgraded = parent.downgraded \/ @, !.selfUsed = TRUE]
        parent1 == [parent EXCEPT
                       !.childrenCreated = @ \cup {key},
                       !.hasChildrenUsed = used,
                       !.childrenUsed = IF used THEN @ \cup {key} ELSE @]
    IN  IF cached
        THEN [ns EXCEPT ![cp].selfUsed = TRUE]
        ELSE Collect([ns EXCEPT ![path] = parent1, ![cp] = r])

RECURSIVE Navigate(_, _, _, _, _)
RECURSIVE nestedGetter(_, _, _, _, _)

\* the state handle's property getter (nestedGetter) for Head(keys), once
\* this.get() returned g: a primitive has no nested handles
nestedGetter(g, path, keys, isMounted, s) ==
    IF g.err # NoError THEN g
    ELSE IF ~(IsContainer(g.ns[path].valueSource) \/ IsArray(g.ns[path].valueSource))
    THEN NodeResult(g.ns, "UndefinedHandle", undefined)
    ELSE Navigate(child(g.ns, path, Head(keys), isMounted),
                  Append(path, Head(keys)), Tail(keys), isMounted, s)

\* the property getters applied along keys, starting at the node at path:
\* state.k1.k2...
Navigate(ns, path, keys, isMounted, s) ==
    IF keys = <<>> THEN NodeResult(ns, NoError, undefined)
    ELSE nestedGetter(get(ns, path, isMounted, s, FALSE), path, keys, isMounted, s)

-----------------------------------------------------------------------------
(* Change propagation.  Every node of a consumer shares one callback, so a *)
(* callback is named by its consumer.  The fan-out keeps a log of the      *)
(* subscribers it asked and of the actions.add() calls they made.          *)

\* subscriber.onSet(ad, actions) was called for the root node of h
Consult(h) == [e |-> "onSet", c |-> h]
\* actions.add(onSetUsed) was called by a node of h
Add(h) == [e |-> "add", c |-> h]
\* the callback of h was invoked
Call(h) == [e |-> "call", c |-> h]

OnSetResult(nds, log, updated) ==
    [nodes |-> nds, log |-> log, updated |-> updated]

\* the Set `actions` after the add() calls of the log
Actions(log) == {log[i].c : i \in {j \in DOMAIN log : log[j].e = "add"}}

\* a faulty Store.update: the callbacks are kept in a list, not in a Set
RECURSIVE InvokedPerAdd(_, _)
InvokedPerAdd(log, done) ==
    IF log = <<>> THEN <<>>
    ELSE IF Head(log).e = "add"
    THEN <<Call(Head(log).c)>> \o InvokedPerAdd(Tail(log), done)
    ELSE InvokedPerAdd(Tail(log), done)

\* actions.forEach(a => a()): a Set holds a callback once, at the place of
\* its first add(); done are the callbacks already met
RECURSIVE Invoked(_, _)
Invoked(log, done) ==
    IF log = <<>> THEN <<>>
    ELSE IF Head(log).e = "add" /\ Head(log).c \notin done
    THEN <<Call(Head(log).c)>> \o Invoked(Tail(log), done \cup {Head(log).c})
    ELSE Invoked(Tail(log), done)

\* the log of the subscriber h, asked by forEach, whose onSet returned r
Consulted(h, r) == [r EXCEPT !.log = <<Consult(h)>> \o @]

\* the keys of the action map that are tagged as deleted
Deleted(actions) == {i \in DOMAIN actions : actions[i] = "D"}

\* Object.keys(ad.actions).map(i => Number(i)).sort().find(i => it is "D"):
\* sort() without a comparator orders the numbers as strings
firstDeletedIndex(actions) ==
    Head(SelectSeq(SortedKeys(DOMAIN actions), LAMBDA i : actions[i] = "D"))

\* the pruning of childrenUsed when the written value is this node's own
Prune(n, ad) ==
    IF ad.has /\ n.hasChildrenUsed
    THEN IF ad.indexed
         THEN IF IsArray(n.valueSource) /\ Deleted(ad.actions) # {}
              THEN [n EXCEPT !.childrenUsed =
                       {k \in @ : ~(\/ Number(k) >= firstDeletedIndex(ad.actions)
                                    \/ Number(k) \in DOMAIN ad.actions)}]
              ELSE [n EXCEPT !.childrenUsed =
                       {k \in @ : Number(k) \notin DOMAIN ad.actions}]
         ELSE [n EXCEPT !.childrenUsed = @ \ DOMAIN ad.actions]
    ELSE [n EXCEPT !.hasChildrenUsed = FALSE, !.childrenUsed = {}]

\* a faulty onSet: every write is taken for a write of the node's own value
IsOwnAlways(path, ad) == TRUE

\* StateMethodsImpl.onSet: there is no next child to dive into
IsOwn(path, ad) == Len(ad.path) <= Len(path)

RECURSIVE onSet(_, _, _, _)
RECURSIVE onSetAll(_, _, _, _)
RECURSIVE updateNode(_, _, _, _)

\* onSet, update(): the written value is this node's own
updateOwn(nds, h, path, ad, n1, acts1, isAffected) ==
    IF n1.valueUsed # ValueUnusedMarker
    THEN OnSetResult([nds EXCEPT ![h][path] = Prune([n1 EXCEPT !.selfUsed = FALSE], ad)],
                     Append(acts1, Add(h)), TRUE)
    ELSE OnSetResult([nds EXCEPT ![h][path] = n1], acts1, isAffected)

\* onSet, update(): the used child on the written path returned sub
updateBelow(sub, h, path, acts1, isAffected) ==
    IF sub.updated
    THEN OnSetResult([sub.nodes EXCEPT ![h][path].selfUsed = FALSE],
                     acts1 \o sub.log, TRUE)
    ELSE OnSetResult(sub.nodes, acts1 \o sub.log, isAffected)

\* a faulty onSet: a downgraded node is tracked like any other node
downgradedNeverAffected(n) == FALSE

\* onSet, update(): this.downgraded && this.valueUsed !== ValueUnusedMarker
downgradedAffected(n) == n.downgraded /\ n.valueUsed # ValueUnusedMarker

\* onSet, the update() closure on the node of handle h at path
updateNode(nds, h, path, ad) ==
    LET n == nds[h][path]
        isAffected == downgradedAffected(n)
        n1 == IF isAffected THEN [n EXCEPT !.selfUsed = FALSE] ELSE n
        acts1 == IF isAffected THEN <<Add(h)>> ELSE <<>>
        nextChildKey == ad.path[Len(path) + 1]
    IN  IF IsOwn(path, ad)
        THEN updateOwn(nds, h, path, ad, n1, acts1, isAffected)
        ELSE IF n1.hasChildrenUsed /\ nextChildKey \in n1.childrenUsed
        THEN updateBelow(onSet([nds EXCEPT ![h][path] = n1], h,
                               Append(path, nextChildKey), ad),
                         h, path, acts1, isAffected)
        ELSE OnSetResult([nds EXCEPT ![h][path] = n1], acts1, isAffected)

\* a faulty onSet: an affected subscriber leaves the node's self proxy cached
fanOutKeepsSelf(inner, fan, h, path) ==
    OnSetResult(fan.nodes, inner.log \o fan.log, inner.updated)

\* onSet: the nodes subscribed to a node that was not updated returned fan
fanOut(inner, fan, h, path) ==
    OnSetResult(IF fan.updated THEN [fan.nodes EXCEPT ![h][path].selfUsed = FALSE]
                ELSE fan.nodes,
                inner.log \o fan.log, inner.updated)

\* a faulty onSet: the subscribed nodes are asked whatever update() returned
onSetDoneAlways(inner, subscribers, h, path, ad) ==
    IF subscribers # {}
    THEN fanOut(inner, onSetAll(inner.nodes, subscribers, path, ad), h, path)
    ELSE inner

\* onSet once update() returned inner
onSetDone(inner, subscribers, h, path, ad) ==
    IF ~inner.updated /\ subscribers # {}
    THEN fanOut(inner, onSetAll(inner.nodes, subscribers, path, ad), h, path)
    ELSE inner

\* StateMethodsImpl.onSet of the node of handle h at path
onSet(nds, h, path, ad) ==
    onSetDone(updateNode(nds, h, path, ad), nds[h][path].subscribers, h, path, ad)

\* the results of two onSet rounds, the second run on the nodes of the first
Joined(r, rest) ==
    OnSetResult(rest.nodes, r.log \o rest.log, r.updated \/ rest.updated)

\* forEach: the remaining subscribers are asked once the first returned r
onSetRest(r, subscribers, path, ad) ==
    Joined(r, onSetAll(r.nodes, subscribers, path, ad))

\* subscribers.forEach(s => s.onSet(ad, actions)) over the subscribed root
\* nodes, all of them at path; updated tells whether any of them was affected
onSetAll(nds, subscribers, path, ad) ==
    IF subscribers = {} THEN OnSetResult(nds, <<>>, FALSE)
    ELSE onSetRest(Consulted(CHOOSE x \in subscribers : TRUE,
                             onSet(nds, CHOOSE x \in subscribers : TRUE, path, ad)),
                   subscribers \ {CHOOSE x \in subscribers : TRUE}, path, ad)

RECURSIVE updateEach(_, _, _, _)

\* forEach over the keys: the remaining keys are fanned out once the first
\* returned r
updateRest(r, subscribers, path, keys) ==
    Joined(r, updateEach(r.nodes, subscribers, path, keys))

\* the fan-out of an all-update action map: one single-key descriptor per key
updateEach(nds, subscribers, path, keys) ==
    IF keys = {} THEN OnSetResult(nds, <<>>, FALSE)
    ELSE updateRest(onSetAll(nds, subscribers, RootPath,
                             Descriptor(Append(path, CHOOSE k \in keys : TRUE))),
                    subscribers, path, keys \ {CHOOSE k \in keys : TRUE})

\* Object.keys(ad.actions)
KeyNames(ad) ==
    IF ad.indexed THEN {IndexName(i) : i \in DOMAIN ad.actions} ELSE DOMAIN ad.actions

\* a faulty Store.update: an action map of updates is not unfolded
updateWhole(nds, subscribers, ad) == onSetAll(nds, subscribers, RootPath, ad)

\* Store.update: the nodes after the fan-out and the callbacks then invoked
update(nds, subscribers, ad) ==
    IF ad.has /\ \A k \in DOMAIN ad.actions : ad.actions[k] = "U"
    THEN updateEach(nds, subscribers, ad.path, KeyNames(ad))
    ELSE onSetAll(nds, subscribers, RootPath, ad)

-----------------------------------------------------------------------------
(* Handle operations: what one call on a state handle does to the handle's *)
(* tree and to the store.                                                  *)

WriteResult(ns, r) == [ns |-> ns, r |-> r]

IsPrimitive(v) == ~IsObject(v)

\* a faulty setUntrackedV4: an unchanged primitive is written all the same
setUntrackedV4Always(ns, path, isMounted, s, newValue, mergeValue) ==
    WriteResult(ns, StoreSet(s, path, newValue, mergeValue))

\* setUntrackedV4 once getUntracked(true) returned g: an unchanged primitive
\* skips the write
setChecked(g, ns, path, s, newValue, mergeValue) ==
    IF IsPrimitive(newValue) /\ newValue = g.ret
    THEN WriteResult(g.ns, Skipped(s))
    ELSE WriteResult(IF IsPrimitive(newValue) THEN g.ns ELSE ns,
                     StoreSet(s, path, newValue, mergeValue))

\* StateMethodsImpl.setUntrackedV4 on the node at path
setUntrackedV4(ns, path, isMounted, s, newValue, mergeValue) ==
    setChecked(getUntracked(ns, path, isMounted, s, TRUE), ns, path, s,
               newValue, mergeValue)

\* a faulty object merge: a key that is new is tagged as an update
MergeActionsWithoutInsert(currentValue, f) ==
    [k \in DOMAIN f |-> IF f[k] = none THEN "D" ELSE "U"]

\* the action map of a keyed merge onto an object
MergeActions(currentValue, f) ==
    [k \in DOMAIN f |-> IF f[k] = none THEN "D"
                        ELSE IF HasKey(currentValue, k) THEN "U" ELSE "I"]

\* the object after the keyed merge mutated it
Merged(currentValue, f) ==
    LET keep == {k \in DOMAIN currentValue.f : ~(k \in DOMAIN f /\ f[k] = none)}
        add == {k \in DOMAIN f : f[k] # none}
    IN  [currentValue EXCEPT !.f =
            [k \in keep \cup add |-> IF k \in add THEN f[k] ELSE currentValue.f[k]]]

\* the merge mutates the object the node holds, which is the store's
Mutated(s, path, currentValue, f) ==
    IF StoreGet(s, path) = currentValue
    THEN [s EXCEPT !.value = PutAt(@, path, Merged(currentValue, f))]
    ELSE s

\* a faulty mergeUntrackedV4: the descriptor of the write is returned
mergeDoneWithoutActions(w, path, actions) ==
    IF w.r.err # NoError THEN w
    ELSE WriteResult(w.ns, [w.r EXCEPT !.kind = "merge"])

\* mergeUntrackedV4 once setUntrackedV4 returned w: the descriptor carries
\* the action map
mergeDone(w, path, actions) ==
    IF w.r.err # NoError THEN w
    ELSE WriteResult(w.ns, [w.r EXCEPT !.ad = DescriptorWith(path, actions),
                                       !.kind = "merge"])

\* the array after the partial's elements were pushed
Pushed(currentValue, sourceValue) ==
    [currentValue EXCEPT !.e = @ \o sourceValue.e]

\* a faulty array merge: the action map counts from the start of the array
PushActionsFromZero(currentValue, sourceValue) ==
    [i \in 0..(Len(sourceValue.e) - 1) |-> "I"]

\* the action map of an array merged onto an array:
\* ad.actions[currentValue.push(e) - 1] = "I"
PushActions(currentValue, sourceValue) ==
    [i \in Len(currentValue.e)..(Len(currentValue.e) + Len(sourceValue.e) - 1)
        |-> "I"]

\* the action map of a keyed merge onto an array
IndexActions(currentValue, f) ==
    [i \in DOMAIN f |-> IF f[i] = none THEN "D"
                        ELSE IF i < Len(currentValue.e) THEN "U" ELSE "I"]

\* the forEach over the sorted keys: the elements after the assignments
RECURSIVE Assigned(_, _, _)
Assigned(e, f, keys) ==
    IF keys = <<>> THEN e
    ELSE Assigned(IF f[Head(keys)] = none THEN e
                  ELSE SetIndex(e, Head(keys), f[Head(keys)]),
                  f, Tail(keys))

\* deletedIndexes, in the order the forEach pushed them
deletedIndexes(f, keys) == SelectSeq(keys, LAMBDA i : f[i] = none)

\* deletedIndexes.reverse().forEach(p => currentValue.splice(p, 1))
RECURSIVE SplicedFromEnd(_, _)
SplicedFromEnd(e, deleted) ==
    IF deleted = <<>> THEN e
    ELSE SplicedFromEnd(Splice(e, deleted[Len(deleted)]),
                        SubSeq(deleted, 1, Len(deleted) - 1))

\* the array after the keyed merge mutated it
IndexMerged(currentValue, f) ==
    [currentValue EXCEPT !.e =
        SplicedFromEnd(Assigned(@, f, SortedKeys(DOMAIN f)),
                       deletedIndexes(f, SortedKeys(DOMAIN f)))]

\* the merge mutates the array the node holds, which is the store's
Replaced(s, path, currentValue, newValue) ==
    IF StoreGet(s, path) = currentValue
    THEN [s EXCEPT !.value = PutAt(@, path, newValue)]
    ELSE s

\* the action map that w returns is keyed by array indices
Indexed(w) == IF w.r.ad.has THEN [w EXCEPT !.r.ad.indexed = TRUE] ELSE w

\* mergeUntrackedV4 on an array: newValue is the mutated array, actions the
\* action map collected on the way
mergeArray(g, path, isMounted, s, sourceValue, newValue, actions) ==
    IF DOMAIN actions = {}
    THEN WriteResult(g.ns, Skipped(s))
    ELSE Indexed(mergeDone(setUntrackedV4(g.ns, path, isMounted,
                                          Replaced(s, path, g.ret, newValue),
                                          newValue, sourceValue),
                           path, actions))

\* mergeUntrackedV4 once getUntracked returned g (g.ret is currentValue)
mergeOnto(g, path, isMounted, s, sourceValue) ==
    IF g.err # NoError THEN WriteResult(g.ns, Threw(s, g.err))
    ELSE IF IsArray(g.ret)
    THEN IF IsArray(sourceValue)
         THEN mergeArray(g, path, isMounted, s, sourceValue,
                         Pushed(g.ret, sourceValue),
                         PushActions(g.ret, sourceValue))
         ELSE mergeArray(g, path, isMounted, s, sourceValue,
                         IndexMerged(g.ret, sourceValue.f),
                         IndexActions(g.ret, sourceValue.f))
    ELSE IF IsContainer(g.ret)
    THEN IF sourceValue.t # "partial" \/ DOMAIN sourceValue.f = {}
         THEN WriteResult(g.ns, Skipped(s))
         ELSE mergeDone(setUntrackedV4(g.ns, path, isMounted,
                                       Mutated(s, path, g.ret, sourceValue.f),
                                       Merged(g.ret, sourceValue.f), sourceValue),
                        path, MergeActions(g.ret, sourceValue.f))
    ELSE setUntrackedV4(g.ns, path, isMounted, s, sourceValue, Absent)

\* StateMethodsImpl.mergeUntrackedV4 on the node at path; sourceValue is a
\* keyed partial or a primitive
mergeUntrackedV4(ns, path, isMounted, s, sourceValue) ==
    mergeOnto(getUntracked(ns, path, isMounted, s, FALSE), path, isMounted, s,
              sourceValue)

-----------------------------------------------------------------------------
(* The state after construction: createState(initial) builds the Store and *)
(* the global handle's root node (Store.toMethods, then .self).            *)

InitialObject == Obj(0, [k \in Keys |-> Prim(1)])
InitialValues == {InitialObject, PromiseLike}

\* Store.constructor
StoreInit(initial) ==
    LET s0 == [value |-> initial, edition |-> 0, promised |-> 0, wrappers |-> <<>>]
    IN  IF IsObject(initial) /\ promiseDetector(initial)
        THEN [createPromised(s0, TRUE, TRUE) EXCEPT !.value = none]
        ELSE IF initial = none
        THEN createPromised(s0, FALSE, TRUE)
        ELSE s0

\* Store.toMethods and the handle's self proxy
toMethods(s) ==
    [BlankTree EXCEPT ![RootPath] =
        [Node(StoreGet(s, RootPath), s.edition) EXCEPT !.selfUsed = TRUE]]

NoOp == [op |-> "init", h |-> Global, path |-> RootPath, arg |-> Absent,
         err |-> NoError, ret |-> Absent, kind |-> "none", notified |-> {},
         calls |-> <<>>, w |-> 0, stale |-> FALSE, ad |-> NoDescriptor,
         log |-> <<>>, fx |-> <<>>]

InitWith(initial, budget) ==
    LET s == StoreInit(initial)
    IN  /\ value = s.value
        /\ edition = s.edition
        /\ promised = s.promised
        /\ wrappers = s.wrappers
        /\ hidden = {}
        /\ nodes = [h \in Handles |-> IF h = Global THEN toMethods(s) ELSE BlankTree]
        /\ mounted = [c \in Consumers |-> "never"]
        /\ subs = {}
        /\ plugins = [ids |-> {}, inits |-> <<>>, setSubscribers |-> <<>>,
                      destroySubscribers |-> <<>>]
        /\ destroyCalls = [p \in Plugins |-> <<>>]
        /\ reads = [c \in Consumers |-> {}]
        /\ prevReads = [c \in Consumers |-> {}]
        /\ dirty = [c \in Consumers |-> FALSE]
        /\ last = NoOp
        /\ steps = budget

Init == \E initial \in InitialValues : InitWith(initial, MaxSteps)

IsMounted(h) == h \in Consumers /\ mounted[h] = "mounted"
Usable(h) == IF h = Global THEN TRUE ELSE mounted[h] # "never"

\* one more operation is performed
Step ==
    /\ steps > 0
    /\ steps' = steps - 1

SetStore(s) ==
    /\ value' = s.value
    /\ edition' = s.edition
    /\ promised' = s.promised
    /\ wrappers' = s.wrappers

Notify(notified) ==
    dirty' = [c \in Consumers |-> dirty[c] \/ c \in notified]

\* the node of handle h at path holds a value cache filled at an earlier edition
HoldsStale(h, path) ==
    /\ nodes[h][path].exists
    /\ nodes[h][path].valueUsed # ValueUnusedMarker
    /\ nodes[h][path].valueEdition # edition

\* a read call through handle h returned fin, a NodeResult, or threw fin.err;
\* the store is left alone; didRead tells whether the call marked the node used
ReadDone(h, fin, op, path, ret, didRead) ==
    /\ Step
    /\ nodes' = [nodes EXCEPT ![h] = fin.ns]
    /\ reads' = IF didRead /\ h \in Consumers
                THEN [reads EXCEPT ![h] = @ \cup {path}] ELSE reads
    /\ last' = [NoOp EXCEPT !.op = op, !.h = h, !.path = path, !.err = fin.err,
                            !.ret = IF fin.err = NoError THEN ret ELSE Absent,
                            !.stale = HoldsStale(h, path)]
    /\ UNCHANGED <<hidden, value, edition, promised, wrappers, mounted, subs,
                   plugins, destroyCalls, prevReads, dirty>>

\* the events of Store.update, which runs while the store is s
Fanned(log, s) ==
    [i \in DOMAIN log |-> [e |-> log[i].e, c |-> log[i].c,
                           edition |-> s.edition, value |-> s.value]]

\* the store and the trees after Store.update fanned out u, and the
\* collected callbacks invoked
Updated(h, op, path, arg, r, w, u) ==
    /\ Step
    /\ SetStore(r.s)
    /\ nodes' = u.nodes
    /\ Notify(Actions(u.log))
    /\ last' = [NoOp EXCEPT !.op = op, !.h = h, !.path = path, !.arg = arg,
                            !.err = r.err, !.kind = r.kind,
                            !.notified = Actions(u.log), !.calls = r.calls,
                            !.w = w, !.ad = r.ad,
                            !.log = u.log \o Invoked(u.log, {}),
                            !.fx = r.fx \o Fanned(u.log \o Invoked(u.log, {}), r.s)]
    /\ UNCHANGED <<hidden, mounted, subs, plugins, destroyCalls, reads, prevReads>>

\* the root node n holds a reference to the object v, which a merge mutated
SharedNode(n, v) ==
    [n EXCEPT !.valueSource =
                  IF @.t = v.t /\ @.id = v.id THEN v ELSE @,
              !.valueUsed =
                  IF @ # ValueUnusedMarker /\ @.v.t = v.t /\ @.v.id = v.id
                  THEN [@ EXCEPT !.v = v] ELSE @]

\* a merge mutated the root object in place and the write then threw: the
\* nodes that hold the object see it as it now is
Shared(nds, v) ==
    IF (IsContainer(v) \/ IsArray(v)) /\ v # value
    THEN [h \in Handles |-> [nds[h] EXCEPT ![RootPath] = SharedNode(@, v)]]
    ELSE nds

\* a write call through handle h returned wr, a WriteResult: when it returned
\* a descriptor, Store.update fans it out
WriteDone(h, op, path, arg, wr, w) ==
    Updated(h, op, path, arg, wr.r, w,
            IF wr.r.err = NoError /\ ~wr.r.ad.null
            THEN update([nodes EXCEPT ![h] = wr.ns], subs, wr.r.ad)
            ELSE OnSetResult(Shared([nodes EXCEPT ![h] = wr.ns], wr.r.s.value),
                             <<>>, FALSE))

-----------------------------------------------------------------------------
(* Inputs *)

\* an object literal handed to a write gets a fresh identity
Fresh(v) == Stamp(v, edition + 1)

ObjectInputs == {Obj(0, [k \in K |-> Prim(2)]) : K \in {{"a"}, {"a", "b"}}}
RootInputs == {Prim(1), none, PromiseLike} \cup ObjectInputs
NestedInputs == {Prim(n) : n \in Prims} \cup {none, PromiseLike}
SetInputs(path) == IF path = RootPath THEN RootInputs ELSE NestedInputs
FulfilValues == {Prim(2), none} \cup ObjectInputs

Partial(f) == [t |-> "partial", f |-> f]
Partials == UNION {[K -> {Prim(2), none}] : K \in (SUBSET Keys) \ {{}}}

\* a partial that carries a promise-like value for a key
PromisePartial == Partial(("a" :> PromiseLike))

MakesPromised(path, v) == path = RootPath /\ v \in {none, PromiseLike}

-----------------------------------------------------------------------------
(* Actions *)

\* useHookstate(globalState) in a component: the first render creates the
\* consumer's root node; every render reconstructs and subscribes it
UseHookstate(c) ==
    /\ Step
    /\ mounted[c] # "unmounted"
    /\ LET s == StoreRec
           n0 == IF mounted[c] = "never"
                 THEN Node(StoreGet(s, RootPath), s.edition)
                 ELSE nodes[c][RootPath]
           n1 == reconstruct(n0, StoreGet(s, RootPath), s.edition, FALSE)
           ns == Collect([nodes[c] EXCEPT ![RootPath] = [n1 EXCEPT !.selfUsed = TRUE]])
       IN  nodes' = [nodes EXCEPT ![c] = ns]
    /\ mounted' = [mounted EXCEPT ![c] = "mounted"]
    /\ subs' = subs \cup {c}
    /\ prevReads' = [prevReads EXCEPT ![c] = @ \cup reads[c]]
    /\ reads' = [reads EXCEPT ![c] = {}]
    /\ dirty' = [dirty EXCEPT ![c] = FALSE]
    /\ last' = [NoOp EXCEPT !.op = "render", !.h = c]
    /\ UNCHANGED <<hidden, value, edition, promised, wrappers, plugins, destroyCalls>>

\* the unmount effect: onUnmount and Store.unsubscribe
Unmount(c) ==
    /\ Step
    /\ mounted[c] = "mounted"
    /\ mounted' = [mounted EXCEPT ![c] = "unmounted"]
    /\ subs' = subs \ {c}
    /\ last' = [NoOp EXCEPT !.op = "unmount", !.h = c]
    /\ UNCHANGED <<hidden, value, edition, promised, wrappers, nodes, plugins,
                   destroyCalls, reads, prevReads, dirty>>

\* state.<path> through handle h: the nested handle is obtained, not read
Nested(h, path) ==
    /\ Usable(h)
    /\ \E nav \in {Navigate(nodes[h], RootPath, path, IsMounted(h), StoreRec)} :
          ReadDone(h, nav, "nested", path, Absent, FALSE)

\* the path of the root node of the scoped consumer c
ScopedAt(c) == {path \in TreePaths : nodes[c][path].scoped}

\* useHookstate(source) in a component c, where source is the handle at path
\* that the mounted consumer p obtained: the first render creates the node
\* of c, and its effect closure keeps the parent's node of that render; every
\* render reconstructs the node and subscribes it to the parent's node.
\* reset tells whether source is another proxy than at the previous render
UseHookstateScoped(c, p, path) ==
    /\ Step
    /\ mounted[c] # "unmounted"
    /\ IsMounted(p)
    /\ nodes[p][path].exists
    /\ mounted[c] = "never" \/ ScopedAt(c) = {path}
    /\ \E reset \in IF mounted[c] = "never" THEN {FALSE} ELSE BOOLEAN :
          LET s == StoreRec
              n0 == IF mounted[c] = "never"
                    THEN [Node(StoreGet(s, path), s.edition) EXCEPT !.scoped = TRUE]
                    ELSE nodes[c][path]
              n1 == reconstruct(n0, StoreGet(s, path), s.edition, reset)
              ns == Collect([nodes[c] EXCEPT ![path] = [n1 EXCEPT !.selfUsed = TRUE]])
          IN  nodes' = [nodes EXCEPT
                           ![c] = ns,
                           ![p][path].subscribers = @ \cup {c},
                           ![p][path].captured =
                               IF mounted[c] = "never" THEN @ \cup {c} ELSE @]
    /\ mounted' = [mounted EXCEPT ![c] = "mounted"]
    /\ prevReads' = [prevReads EXCEPT ![c] = @ \cup reads[c]]
    /\ reads' = [reads EXCEPT ![c] = {}]
    /\ dirty' = [dirty EXCEPT ![c] = FALSE]
    /\ last' = [NoOp EXCEPT !.op = "render", !.h = c, !.path = path]
    /\ UNCHANGED <<hidden, value, edition, promised, wrappers, subs, plugins, destroyCalls>>

\* parentMethods.unsubscribe(value.state) of the unmount effect, which was
\* created at the first render: the node that effect holds forgets c
Unsubscribed(n, c) ==
    IF c \in n.captured THEN [n EXCEPT !.subscribers = @ \ {c}] ELSE n

\* the unmount effect of a scoped consumer: onUnmount and unsubscribe
UnmountScoped(c) ==
    /\ Step
    /\ mounted[c] = "mounted"
    /\ ScopedAt(c) # {}
    /\ mounted' = [mounted EXCEPT ![c] = "unmounted"]
    /\ nodes' = [h \in Handles |-> [q \in TreePaths |-> Unsubscribed(nodes[h][q], c)]]
    /\ last' = [NoOp EXCEPT !.op = "unmount", !.h = c]
    /\ UNCHANGED <<hidden, value, edition, promised, wrappers, subs, plugins,
                   destroyCalls, reads, prevReads, dirty>>

\* state.get() through the handle of the scoped consumer c
GetScoped(c) ==
    /\ mounted[c] # "never"
    /\ \E path \in ScopedAt(c) :
          \E fin \in {get(nodes[c], path, IsMounted(c), StoreRec, FALSE)} :
              ReadDone(c, fin, "get", path, fin.ret, fin.err = NoError)

\* state.<path>.get() once the handle at path was obtained (nav)
getCall(nav, path, isMounted, s) ==
    IF nav.err # NoError THEN nav ELSE get(nav.ns, path, isMounted, s, FALSE)

\* state.<path>.get() through handle h
Get(h, path) ==
    /\ Usable(h)
    /\ \E fin \in {getCall(Navigate(nodes[h], RootPath, path, IsMounted(h), StoreRec),
                           path, IsMounted(h), StoreRec)} :
          ReadDone(h, fin, "get", path, fin.ret, fin.err = NoError)

\* a symbol, as a property key
SymbolKey == "@@symbol"
PropertyKeys == Keys \cup {SymbolKey}

\* the object a value proxy wraps, by identity
Identity(v) == [t |-> v.t, id |-> v.id]

\* a faulty property setter of the value proxies: symbol keys are refused too
SetterRefusesAll(key) == "SetProperty_Value"

\* the property setter of valueArrayImpl and valueObjectImpl: what it throws
SetterThrows(key) == IF key = SymbolKey THEN NoError ELSE "SetProperty_Value"

\* state.<path>.get()[key] = x through handle h, where get() returned a value
\* proxy: a symbol key is stored on the wrapped object
AssignValue(h, path, key) ==
    /\ Usable(h)
    /\ Step
    /\ \E fin \in {getCall(Navigate(nodes[h], RootPath, path, IsMounted(h), StoreRec),
                           path, IsMounted(h), StoreRec)} :
          /\ fin.err = NoError
          /\ fin.ret.t = "used" /\ fin.ret.proxy
          /\ nodes' = [nodes EXCEPT ![h] = fin.ns]
          /\ hidden' = IF SetterThrows(key) = NoError
                       THEN hidden \cup {Identity(fin.ret.v)} ELSE hidden
          /\ last' = [NoOp EXCEPT !.op = "assign", !.h = h, !.path = path,
                                  !.kind = "value", !.arg = key,
                                  !.err = SetterThrows(key)]
    /\ reads' = IF h \in Consumers THEN [reads EXCEPT ![h] = @ \cup {path}] ELSE reads
    /\ UNCHANGED <<value, edition, promised, wrappers, mounted, subs,
                   plugins, destroyCalls, prevReads, dirty>>

\* state.<path>[key] = x through handle h: the setter of the state proxy
\* throws for every key
AssignState(h, path, key) ==
    /\ Usable(h)
    /\ \E nav \in {Navigate(nodes[h], RootPath, path, IsMounted(h), StoreRec)} :
          /\ nav.err = NoError
          /\ ReadDone(h, [nav EXCEPT !.err = "SetProperty_State"], "assign", path,
                      Absent, FALSE)

\* state.promised through handle h
GetPromised(h) ==
    /\ Usable(h)
    /\ \E g \in {get(nodes[h], RootPath, IsMounted(h), StoreRec, TRUE)} :
          ReadDone(h, g, "promised", RootPath,
                   Bool(/\ g.ns[RootPath].valueSource = none
                        /\ promised # 0
                        /\ ~wrappers[promised].fullfilled),
                   TRUE)

\* state.error once this.get(true) returned g: the error of a settled pending
\* value, undefined for a present value, and a throwing get() otherwise
errorCall(g, isMounted, s) ==
    IF g.ns[RootPath].valueSource = none
    THEN IF s.promised # 0 /\ s.wrappers[s.promised].fullfilled
         THEN [g EXCEPT !.ret = IF s.wrappers[s.promised].error # NoError
                                THEN Thrown(s.wrappers[s.promised].error)
                                ELSE undefined]
         ELSE get(g.ns, RootPath, isMounted, s, FALSE)
    ELSE [g EXCEPT !.ret = undefined]

\* state.error through handle h
GetError(h) ==
    /\ Usable(h)
    /\ \E fin \in {errorCall(get(nodes[h], RootPath, IsMounted(h), StoreRec, TRUE),
                             IsMounted(h), StoreRec)} :
          ReadDone(h, fin, "error", RootPath, fin.ret, TRUE)

\* state.<path>.set(v) once the handle at path was obtained (nav)
setCall(nav, path, isMounted, s, v) ==
    IF nav.err # NoError THEN WriteResult(nav.ns, Threw(s, nav.err))
    ELSE setUntrackedV4(nav.ns, path, isMounted, s, v, Absent)

\* state.<path>.set(v) through handle h
Set(h, path, v) ==
    /\ Usable(h)
    /\ MakesPromised(path, v) => Len(wrappers) < MaxPromised
    /\ WriteDone(h, "set", path, Fresh(v),
                 setCall(Navigate(nodes[h], RootPath, path, IsMounted(h), StoreRec),
                         path, IsMounted(h), StoreRec, Fresh(v)),
                 0)

\* state.<path>.merge(m) once the handle at path was obtained (nav)
mergeCall(nav, path, isMounted, s, m) ==
    IF nav.err # NoError THEN WriteResult(nav.ns, Threw(s, nav.err))
    ELSE mergeUntrackedV4(nav.ns, path, isMounted, s, m)

\* state.<path>.merge(m) through handle h
Merge(h, path, m) ==
    /\ Usable(h)
    /\ (m.t \in {"partial", "arr"}) = (StoreGet(StoreRec, path).t \in {"obj", "arr"})
    /\ WriteDone(h, "merge", path, m,
                 mergeCall(Navigate(nodes[h], RootPath, path, IsMounted(h), StoreRec),
                           path, IsMounted(h), StoreRec, m),
                 0)

\* the source promise of Promised w fulfils with r: its then-callback runs
\* and calls onResolve
Fulfil(w, r) ==
    /\ w \in 1..Len(wrappers)
    /\ wrappers[w].source /\ ~wrappers[w].settled
    /\ WriteDone(Global, "fulfil", RootPath, Fresh(r),
                 WriteResult(nodes[Global],
                             onResolve([StoreRec EXCEPT !.wrappers[w].fullfilled = TRUE,
                                                        !.wrappers[w].settled = TRUE],
                                       w, Fresh(r))),
                 w)

\* the source promise of Promised w rejects with e: its catch-callback runs
\* and calls onReject
Reject(w, e) ==
    /\ w \in 1..Len(wrappers)
    /\ wrappers[w].source /\ ~wrappers[w].settled
    /\ WriteDone(Global, "reject", RootPath, Thrown(e),
                 WriteResult(nodes[Global],
                             onReject([StoreRec EXCEPT !.wrappers[w].fullfilled = TRUE,
                                                       !.wrappers[w].error = e,
                                                       !.wrappers[w].settled = TRUE],
                                      w)),
                 w)

\* the promise a Promised without a source made for itself was resolved by
\* a root write: its then-callback runs
ResolverSettle(w) ==
    /\ Step
    /\ w \in 1..Len(wrappers)
    /\ wrappers[w].resolver /\ wrappers[w].resolved /\ ~wrappers[w].settled
    /\ wrappers' = [wrappers EXCEPT ![w].fullfilled = TRUE, ![w].settled = TRUE]
    /\ last' = [NoOp EXCEPT !.op = "settle", !.w = w]
    /\ UNCHANGED <<hidden, value, edition, promised, nodes, mounted, subs, plugins,
                   destroyCalls, reads, prevReads, dirty>>

\* the argument Store.destroy hands to the onDestroy callbacks
OnDestroyArg(v) == [state |-> IF v # none THEN v ELSE Absent]

\* state.destroy(): Store.destroy
Destroy ==
    /\ Step
    /\ destroyCalls' = [p \in Plugins |->
                           destroyCalls[p] \o
                               [i \in 1..Count(destroySubscribers, p) |->
                                   OnDestroyArg(value)]]
    /\ edition' = DestroyedEdition
    /\ last' = [NoOp EXCEPT !.op = "destroy"]
    /\ UNCHANGED <<hidden, value, promised, wrappers, nodes, mounted, subs, plugins,
                   reads, prevReads, dirty>>

\* a faulty Store.register: a registered id is not looked for
registerAgain(pl, p) ==
    [pl EXCEPT !.ids = @ \cup {p},
               !.inits = Append(@, p),
               !.setSubscribers = Append(@, p),
               !.destroySubscribers = Append(@, p)]

\* Store.register of a plugin with the id p, whose init returns an onSet and
\* an onDestroy callback: nothing is done for an id that is registered
register(pl, p) ==
    IF p \in pl.ids THEN pl
    ELSE [pl EXCEPT !.ids = @ \cup {p},
                    !.inits = Append(@, p),
                    !.setSubscribers = Append(@, p),
                    !.destroySubscribers = Append(@, p)]

\* state.attach(plugin) through the root handle h: Store.register
AttachPlugin(h, p) ==
    /\ Step
    /\ Usable(h)
    /\ plugins' = register(plugins, p)
    /\ nodes' = [nodes EXCEPT ![h][RootPath].selfUsed = TRUE]
    /\ last' = [NoOp EXCEPT !.op = "attach", !.h = h, !.arg = p,
                            !.kind = IF p \in plugins.ids THEN "known" ELSE "new"]
    /\ UNCHANGED <<hidden, value, edition, promised, wrappers, mounted, subs,
                   destroyCalls, reads, prevReads, dirty>>

\* attach(Downgraded) on the node at path of the tree ns
attach(ns, path, isMounted, s) ==
    IF ns[path].valueUsed # ValueUnusedMarker
    THEN LET g == getUntracked([ns EXCEPT ![path].downgraded = TRUE], path,
                               isMounted, s, TRUE)
         IN  NodeResult([g.ns EXCEPT ![path].valueUsed = Used(FALSE, g.ret),
                                     ![path].selfUsed = TRUE], NoError, Absent)
    ELSE NodeResult([ns EXCEPT ![path].downgraded = TRUE, ![path].selfUsed = TRUE],
                    NoError, Absent)

\* state.<path>.attach(Downgraded) once the handle at path was obtained (nav)
attachCall(nav, path, isMounted, s) ==
    IF nav.err # NoError THEN nav ELSE attach(nav.ns, path, isMounted, s)

\* state.<path>.attach(Downgraded) through handle h
AttachDowngraded(h, path) ==
    /\ Usable(h)
    /\ ReadDone(h,
                attachCall(Navigate(nodes[h], RootPath, path, IsMounted(h), StoreRec),
                           path, IsMounted(h), StoreRec),
                "downgrade", path, Absent, FALSE)

Next ==
    \/ \E c \in Solo : UseHookstate(c)
    \/ \E c \in Solo : Unmount(c)
    \/ \E h \in SoloHandles, path \in Paths : Get(h, path)
    \/ \E h \in SoloHandles : GetPromised(h)
    \/ \E h \in SoloHandles : GetError(h)
    \/ \E h \in SoloHandles, path \in Paths : \E v \in SetInputs(path) : Set(h, path, v)
    \/ \E h \in SoloHandles, path \in Paths :
          \E m \in {Partial(f) : f \in Partials} \cup {Prim(2), PromisePartial} :
              Merge(h, path, m)
    \/ \E w \in 1..MaxPromised : \E r \in FulfilValues : Fulfil(w, r)
    \/ \E w \in 1..MaxPromised : \E e \in Errs : Reject(w, e)
    \/ \E w \in 1..MaxPromised : ResolverSettle(w)
    \/ Destroy
    \/ \E h \in SoloHandles, path \in Paths : AttachDowngraded(h, path)
    \/ \E h \in SoloHandles, p \in Plugins : AttachPlugin(h, p)

\* every operation, from every initial value
Spec == Init /\ [][Next]_vars

-----------------------------------------------------------------------------
(* Usage tracking: one component renders, reads and unmounts while plain   *)
(* values are written through its handle and through the global handle.    *)

TrackInputs(path) ==
    IF path = RootPath THEN {Prim(1), Obj(0, ("a" :> Prim(2)))}
    ELSE {Prim(1), Prim(2), none}

TrackPartials == {Partial(("a" :> Prim(2))), Partial(("b" :> none))}

NextTrack ==
    \/ \E c \in Solo : UseHookstate(c)
    \/ \E c \in Solo : Unmount(c)
    \/ \E h \in SoloHandles, path \in Paths : Get(h, path)
    \/ \E h \in SoloHandles, path \in Paths : \E v \in TrackInputs(path) : Set(h, path, v)
    \/ \E m \in TrackPartials : Merge(Global, RootPath, m)
    \/ \E c \in Solo, path \in Paths : AttachDowngraded(c, path)

InitTrack == InitWith(InitialObject, TrackSteps)

SpecTrack == InitTrack /\ [][NextTrack]_vars

-----------------------------------------------------------------------------
(* The pending root: promises are written at the root, settle in any       *)
(* order, and the store may be destroyed in between.                       *)

NextAsync ==
    \/ \E c \in Solo : UseHookstate(c)
    \/ \E h \in SoloHandles : Get(h, RootPath)
    \/ \E c \in Solo : GetPromised(c)
    \/ \E c \in Solo : GetError(c)
    \/ \E h \in SoloHandles : \E v \in RootInputs : Set(h, RootPath, v)
    \/ \E w \in 1..MaxPromised : \E r \in FulfilValues : Fulfil(w, r)
    \/ \E w \in 1..MaxPromised : \E e \in Errs : Reject(w, e)
    \/ \E w \in 1..MaxPromised : ResolverSettle(w)
    \/ Destroy

InitAsync == \E initial \in InitialValues : InitWith(initial, AsyncSteps)

SpecAsync == InitAsync /\ [][NextAsync]_vars

-----------------------------------------------------------------------------
(* The destroyed store: handles are read and written, at every path and    *)
(* with every kind of argument, before and after destroy().                *)

DestroyPartials ==
    {Partial(<<>>), Partial(("a" :> Prim(2))), Partial(("b" :> none))}

NextDestroy ==
    \/ \E c \in Solo : UseHookstate(c)
    \/ \E h \in SoloHandles, path \in Paths : Get(h, path)
    \/ \E h \in SoloHandles, path \in Paths : \E v \in SetInputs(path) : Set(h, path, v)
    \/ \E h \in SoloHandles, path \in Paths :
          \E m \in DestroyPartials \cup {Prim(2)} : Merge(h, path, m)
    \/ \E h \in SoloHandles, p \in Plugins : AttachPlugin(h, p)
    \/ Destroy

InitDestroy == \E initial \in InitialValues : InitWith(initial, DestroySteps)

SpecDestroy == InitDestroy /\ [][NextDestroy]_vars

-----------------------------------------------------------------------------
(* Array merges: the root is an array; arrays are appended to it and keyed *)
(* partials update, insert and delete at single-digit and two-digit        *)
(* indices.                                                                *)

InitialArray == Arr(0, [i \in 1..ArrayLen |-> Prim(i - 1)])

MergeIndices == {0, 2, ArrayLen - 2}

IndexPartials ==
    UNION {[K -> {Prim(0), none}] : K \in (SUBSET MergeIndices) \ {{}}}

ArrayPartials == {Arr(0, <<>>), Arr(0, <<Prim(0)>>), Arr(0, <<Prim(0), Prim(1)>>)}

NextArray ==
    \/ \E c \in Solo : UseHookstate(c)
    \/ \E h \in SoloHandles : Get(h, RootPath)
    \/ \E h \in SoloHandles : \E f \in IndexPartials : Merge(h, RootPath, Partial(f))
    \/ \E h \in SoloHandles : \E m \in ArrayPartials : Merge(h, RootPath, m)

InitArray == InitWith(InitialArray, ArraySteps)

SpecArray == InitArray /\ [][NextArray]_vars

-----------------------------------------------------------------------------
(* The vocabulary of the properties *)

PathA == <<"a">>
PathB == <<"b">>

\* an ordinary value: neither the delete sentinel nor promise-like
Ordinary(v) == v.t \in {"prim", "obj"}

\* the latest operation was a write call that changed the stored value
Committed ==
    /\ last.op \in {"set", "merge", "fulfil"}
    /\ last.err = NoError
    /\ last.kind \in {"root", "U", "D", "I", "merge"}

\* what state.promised reads
Pending == value = none /\ promised # 0 /\ ~wrappers[promised].fullfilled

\* what state.error reads once the pending value has settled
ReadableError ==
    IF value = none /\ promised # 0 /\ wrappers[promised].fullfilled
    THEN wrappers[promised].error
    ELSE NoError

\* the store's pending value still waits for the promise given to createState
CtorPending ==
    /\ promised # 0
    /\ wrappers[promised].ctor
    /\ wrappers[promised].source
    /\ ~wrappers[promised].settled

\* the root is pending on a source promise that has not settled
SourcePending ==
    /\ value = none
    /\ promised # 0
    /\ wrappers[promised].source
    /\ ~wrappers[promised].settled

\* the latest operation wrote root.a or replaced the root
TouchesA ==
    /\ Committed
    /\ \/ last.op = "set" /\ last.path = RootPath
       \/ last.op = "set" /\ last.path = PathA
       \/ last.op = "merge" /\ last.path = RootPath /\ "a" \in DOMAIN last.arg.f

-----------------------------------------------------------------------------
(* Notification scoping *)

\* C1, as stated: a consumer whose latest render read only root.a is not
\* notified by any write that targets root.b: update, insert or delete.
C1_AnyWriteToB ==
    \A c \in Consumers :
        (last.op = "set" /\ last.path = PathB /\ reads[c] = {PathA})
            => c \notin last.notified

\* C1, amended: a consumer that is not downgraded and whose latest render
\* read only root.a is not notified by a write to root.b that leaves the key
\* set of the root as it was (an update of the existing key b in place, or a
\* call that changes nothing); an insert or a delete of b is reported as a
\* change of the root object, which reading root.a went through.
C1_UpdateOfB ==
    \A c \in Consumers :
        (/\ last.op = "set" /\ last.path = PathB
         /\ last.kind \notin {"I", "D"}
         /\ reads[c] = {PathA}
         /\ ~nodes[c][RootPath].downgraded)
            => c \notin last.notified

\* C1's case: b was updated in place while a subscribed, not yet notified
\* consumer had read only a
C1_Witness ==
    /\ last.op = "set" /\ last.path = PathB /\ last.kind = "U"
    /\ IsMounted("c1") /\ reads["c1"] = {PathA}
    /\ ~nodes["c1"][RootPath].downgraded
    /\ ~dirty["c1"]

\* C2, as stated: a mounted consumer whose latest render read root.a is
\* notified by every successful write that replaces the root and by every
\* successful write that changes root.a.
C2_AlwaysNotified ==
    \A c \in Consumers :
        (TouchesA /\ IsMounted(c) /\ PathA \in reads[c])
            => c \in last.notified

\* C2, amended: when a successful write replaced the root or changed root.a,
\* a mounted consumer whose latest render read root.a has been notified since
\* that render: by this write, or by an earlier one, after which a replaced
\* root is notified of nothing below it until the consumer reads again.
C2_NotifiedSinceRender ==
    \A c \in Consumers :
        (TouchesA /\ IsMounted(c) /\ PathA \in reads[c]) => dirty[c]

\* C2's case: a write of root.a notified the consumer that read it
C2_Witness ==
    /\ TouchesA /\ last.path = PathA /\ last.kind = "U"
    /\ IsMounted("c1") /\ PathA \in reads["c1"]
    /\ "c1" \in last.notified

\* C3, as stated: a path read in an earlier render but not during or after
\* the latest one no longer causes the consumer to be notified when that
\* path is written.
C3_EarlierReadsForgotten ==
    \A c \in Consumers : \A p \in Paths :
        (/\ last.op = "set" /\ last.path = p /\ Committed
         /\ IsMounted(c)
         /\ p \in prevReads[c] /\ p \notin reads[c])
            => c \notin last.notified

\* C3, amended: a nested path read in an earlier render but not during or
\* after the latest one no longer causes a consumer that is not downgraded to
\* be notified when the value at that path is updated in place; an insert or
\* a delete of the key, and a write of the root, notify every consumer whose
\* latest render used the object that changed.
C3_EarlierUpdateForgotten ==
    \A c \in Consumers : \A p \in {PathA, PathB} :
        (/\ last.op = "set" /\ last.path = p /\ last.kind = "U"
         /\ IsMounted(c)
         /\ p \in prevReads[c] /\ p \notin reads[c]
         /\ ~nodes[c][RootPath].downgraded)
            => c \notin last.notified

\* C3's case: a was read, the consumer rendered again without reading it,
\* and a was updated
C3_Witness ==
    /\ last.op = "set" /\ last.path = PathA /\ last.kind = "U"
    /\ IsMounted("c1")
    /\ PathA \in prevReads["c1"] /\ PathA \notin reads["c1"]
    /\ ~nodes["c1"][RootPath].downgraded
    /\ "c1" \notin last.notified

-----------------------------------------------------------------------------
(* Reads and writes *)

\* C4: after set(v) of an ordinary value v at a path succeeded, get at that
\* path returns v, through every handle, also one whose node cached the value
\* before the write.
C4_ReadAfterWrite ==
    [][(/\ last.op = "set" /\ Committed /\ Ordinary(last.arg)
        /\ last'.op = "get" /\ last'.path = last.path)
           => (last'.err = NoError /\ last'.ret.v = last.arg)]_vars

\* C4's case: a get through a mounted handle whose node held a cache filled
\* before the latest write returned the value now stored
C4_Witness ==
    /\ last.op = "get" /\ last.path = PathA /\ last.stale
    /\ IsMounted(last.h)
    /\ last.err = NoError
    /\ last.ret.v = GetAt(value, PathA)
    /\ last.ret.v # Prim(1)

\* C5: while the store is not destroyed the edition never decreases, and
\* every set or merge call that commits, and the root write of a fulfilled
\* pending promise, increases it by exactly one.
C5_EditionSteps ==
    [][/\ (edition # DestroyedEdition /\ edition' # DestroyedEdition)
              => edition' >= edition
       /\ Committed' => edition' = edition + 1]_vars

\* C5's case: a set and a merge committed one after the other
C5_Witness ==
    /\ Committed /\ last.op = "merge"
    /\ edition = 2

C7_SameValueIsUpdate ==
    [][\A c \in Consumers :
          (/\ last'.op = "set"
           /\ StoreGet(StoreRec, last'.path) = last'.arg
           /\ IsMounted(c) /\ last'.path \in reads[c])
              => c \in last'.notified]_vars

-----------------------------------------------------------------------------
(* The pending root *)

\* C8, as stated: while the store waits for the promise it was constructed
\* with, promised reads true and get throws; once that promise fulfils with
\* r, not superseded and not destroyed, promised reads false, the value is r
\* and the edition is the edition of construction plus one.
C8_AnyFulfilment ==
    [][/\ (CtorPending /\ last'.op = "get")
              => last'.err = "GetStateWhenPromised"
       /\ (CtorPending /\ last'.op = "promised") => last'.ret = Bool(TRUE)
       /\ (/\ CtorPending /\ edition # DestroyedEdition
           /\ last'.op = "fulfil" /\ last'.w = promised)
              => (~Pending' /\ value' = last'.arg /\ edition' = 1)]_vars

\* C8, amended: the same, for a promise that fulfils with a value other than
\* the delete sentinel; fulfilled with the sentinel, the root stays absent
\* under a new pending value and promised still reads true.
C8_RootPromiseFlow ==
    [][/\ (CtorPending /\ last'.op = "get")
              => last'.err = "GetStateWhenPromised"
       /\ (CtorPending /\ last'.op = "promised") => last'.ret = Bool(TRUE)
       /\ (/\ CtorPending /\ edition # DestroyedEdition
           /\ last'.op = "fulfil" /\ last'.w = promised
           /\ last'.arg # none)
              => (~Pending' /\ value' = last'.arg /\ edition' = 1)]_vars

\* C8's case: the promise given at construction fulfilled with an object
\* after a mounted consumer read promised
C8_Witness ==
    /\ last.op = "fulfil" /\ last.kind = "root"
    /\ wrappers[last.w].ctor
    /\ IsContainer(value) /\ value = last.arg
    /\ edition = 1 /\ ~Pending
    /\ RootPath \in reads["c1"]

\* C9, as stated: while the root is pending on a source promise that has not
\* settled, every root write of an ordinary value fails with
\* SetStateWhenPromised and leaves value, edition and pending value alone.
C9_AlwaysSetWhilePending ==
    [][(/\ SourcePending
        /\ last'.op = "set" /\ last'.path = RootPath /\ Ordinary(last'.arg))
           => (/\ last'.err = "SetStateWhenPromised"
               /\ value' = value /\ edition' = edition
               /\ promised' = promised /\ wrappers' = wrappers)]_vars

\* C9, amended: the same while the store is not destroyed; after destroy()
\* the write fails with SetStateWhenDestroyed instead.
C9_SetWhilePending ==
    [][(/\ SourcePending /\ edition # DestroyedEdition
        /\ last'.op = "set" /\ last'.path = RootPath /\ Ordinary(last'.arg))
           => (/\ last'.err = "SetStateWhenPromised"
               /\ value' = value /\ edition' = edition
               /\ promised' = promised /\ wrappers' = wrappers)]_vars

\* C9's case: an object was written at the pending root and refused
C9_Witness ==
    /\ last.op = "set" /\ last.path = RootPath /\ IsContainer(last.arg)
    /\ last.err = "SetStateWhenPromised"
    /\ SourcePending /\ edition # DestroyedEdition

\* C10: the settlement of a promise that is no longer the store's pending
\* value changes neither value, edition, pending value nor the readable error
\* and notifies nobody; the settlement of the promise that is, on a store not
\* destroyed, decides the root, in whichever order the two settle.
C10_StaleSettlement ==
    [][/\ (last'.op \in {"fulfil", "reject"} /\ last'.w # promised)
              => (/\ value' = value /\ edition' = edition
                  /\ promised' = promised
                  /\ ReadableError' = ReadableError
                  /\ last'.notified = {})
       /\ (/\ last'.op = "fulfil" /\ last'.w = promised
           /\ edition # DestroyedEdition)
              => value' = last'.arg
       /\ (/\ last'.op = "reject" /\ last'.w = promised
           /\ edition # DestroyedEdition)
              => (value' = none /\ ReadableError' = last'.arg.e)]_vars

\* C10's case: promise A settled after promise B replaced it and before B
\* settled, while a mounted consumer had read the root
C10_Witness ==
    /\ last.op \in {"fulfil", "reject"} /\ last.w = 1
    /\ promised = 2 /\ wrappers[2].source /\ ~wrappers[2].settled
    /\ IsMounted("c1") /\ RootPath \in reads["c1"]

\* C11, as stated: when the store's current root promise rejects with e, the
\* edition increases by exactly one, the root stays absent, promised reads
\* false, error reads e, every mounted consumer that read the root is
\* notified, and a get that follows throws e again.
C11_AnyRejection ==
    [][/\ (last'.op = "reject" /\ last'.w = promised)
              => (/\ edition' = edition + 1
                  /\ value' = none
                  /\ ~Pending'
                  /\ ReadableError' = last'.arg.e
                  /\ \A c \in Consumers :
                         (IsMounted(c) /\ RootPath \in reads[c])
                             => c \in last'.notified)
       /\ (last.op = "reject" /\ last.w = promised /\ last'.op = "get")
              => last'.err = last.arg.e]_vars

\* C11, amended: the same on a store that was not destroyed; after destroy()
\* the rejection is recorded for the error read, but the edition stays and
\* nobody is notified.
C11_RejectionFlow ==
    [][/\ (/\ last'.op = "reject" /\ last'.w = promised
           /\ edition # DestroyedEdition)
              => (/\ edition' = edition + 1
                  /\ value' = none
                  /\ ~Pending'
                  /\ ReadableError' = last'.arg.e
                  /\ \A c \in Consumers :
                         (IsMounted(c) /\ RootPath \in reads[c])
                             => c \in last'.notified)
       /\ (last.op = "reject" /\ last.w = promised /\ last'.op = "get")
              => last'.err = last.arg.e]_vars

\* C11's case: the root promise rejected, the mounted consumer that had read
\* promised was notified, and its get threw the reason
C11_Witness ==
    /\ last.op = "get" /\ last.h = "c1" /\ last.err \in Errs
    /\ promised # 0 /\ wrappers[promised].error = last.err
    /\ IsMounted("c1") /\ RootPath \in reads["c1"] /\ dirty["c1"]
    /\ edition > 0

-----------------------------------------------------------------------------
(* The destroyed store *)

\* what a handle throws before the call reaches Store.set: the root is
\* pending, or the value above the path has no nested handles
HandleErrors == {"GetStateWhenPromised", "UndefinedHandle"} \cup Errs

\* C12, as stated: after destroy() every set or merge call, on any handle,
\* at any path and with any argument, fails with SetStateWhenDestroyed.
C12_EveryWriteFails ==
    [][(edition = DestroyedEdition /\ last'.op \in {"set", "merge"})
           => last'.err = "SetStateWhenDestroyed"]_vars

\* C12, amended: after destroy() no set or merge call moves the edition,
\* fires a write-callback or notifies a consumer, and every call that
\* reaches Store.set fails with SetStateWhenDestroyed; a call returns
\* without an error when it sets a primitive to the value the path holds or
\* merges an empty partial, and it fails with the error of the read when the
\* root is pending or the handle does not exist.
C12_WritesAfterDestroy ==
    [][(edition = DestroyedEdition /\ last'.op \in {"set", "merge"})
           => (/\ edition' = DestroyedEdition
               /\ last'.calls = <<>>
               /\ last'.notified = {}
               /\ \/ last'.err = "SetStateWhenDestroyed"
                  \/ /\ last'.err = NoError /\ last'.kind = "skip"
                     /\ \/ last'.arg = StoreGet(StoreRec, last'.path)
                        \/ last'.arg = Partial(<<>>)
                  \/ /\ last'.err \in HandleErrors
                     /\ ~IsContainer(value))]_vars

\* C12's case: a consumer's handle wrote a new value at a nested path of the
\* destroyed store and the call failed
C12_Witness ==
    /\ edition = DestroyedEdition
    /\ last.op = "set" /\ last.h = "c1" /\ last.path = PathA
    /\ last.arg = Prim(2) /\ GetAt(value, PathA) = Prim(1)
    /\ last.err = "SetStateWhenDestroyed"

\* C13, as stated: over the whole life of the store each registered
\* destroy-callback is invoked exactly once, whatever is called and however
\* often destroy() is called, and it receives the last-known root value, or
\* no value when the root is absent.
C13_DestroyCallbackOnce ==
    [][last'.op = "destroy"
          => \A p \in Elements(destroySubscribers) :
                 destroyCalls'[p] = <<OnDestroyArg(value)>>]_vars

-----------------------------------------------------------------------------
(* Merges *)

\* the latest operation was a keyed merge that returned
KeyedMerge ==
    /\ last.op = "merge" /\ last.err = NoError
    /\ last.arg.t = "partial" /\ DOMAIN last.arg.f # {}

\* C14: a merge call that changes at least one key is one write, however
\* many keys it touches: the edition increases by exactly one, the
\* write-callbacks fire once, with the partial as the merged input, and the
\* call returns one descriptor whose action map names every touched key.
C14_MergeIsOneWrite ==
    [][KeyedMerge'
          => (/\ edition' = edition + 1
              /\ Len(last'.calls) = 1
              /\ last'.calls[1].merged = last'.arg
              /\ last'.calls[1].path = last'.path
              /\ ~last'.ad.null /\ last'.ad.has
              /\ last'.ad.path = last'.path
              /\ DOMAIN last'.ad.actions = DOMAIN last'.arg.f)]_vars

\* C14's case: a merge updated one key and deleted another
C14_Witness ==
    /\ KeyedMerge
    /\ DOMAIN last.arg.f = {"a", "b"}
    /\ last.ad.actions["a"] = "U" /\ last.ad.actions["b"] = "D"
    /\ edition = 1 /\ Len(last.calls) = 1

\* C20, as stated: no set or merge call can place a promise-like value at a
\* path below the root.
C20_NoNestedPromise ==
    \A k \in Keys : Prop(value, k) # PromiseLike

\* C17: a keyed merge onto an object removes every key the partial maps to
\* the delete sentinel and tags it delete; every other key of the partial
\* takes the partial's value and is tagged update when the key existed
\* before and insert when it did not; the other keys stay as they were.
C17_ObjectMerge ==
    [][(IsContainer(value) /\ KeyedMerge' /\ last'.path = RootPath)
          => (/\ IsContainer(value')
              /\ \A k \in DOMAIN last'.arg.f :
                     IF last'.arg.f[k] = none
                     THEN ~HasKey(value', k) /\ last'.ad.actions[k] = "D"
                     ELSE /\ Prop(value', k) = last'.arg.f[k]
                          /\ last'.ad.actions[k] =
                                 IF HasKey(value, k) THEN "U" ELSE "I"
              /\ \A k \in Keys \ DOMAIN last'.arg.f :
                     /\ HasKey(value', k) = HasKey(value, k)
                     /\ Prop(value', k) = Prop(value, k)
              /\ DOMAIN value'.f \subseteq Keys)]_vars

\* C17's case: one merge updated a and inserted b, which an earlier merge
\* had deleted
C17_Witness ==
    /\ KeyedMerge /\ last.path = RootPath
    /\ DOMAIN last.arg.f = {"a", "b"}
    /\ last.ad.actions["a"] = "U" /\ last.ad.actions["b"] = "I"
    /\ Prop(value, "b") = Prim(2)

\* the elements of e, from index i on, without those at the indices in D
RECURSIVE Without(_, _, _)
Without(e, i, D) ==
    IF i >= Len(e) THEN <<>>
    ELSE (IF i \in D THEN <<>> ELSE <<e[i + 1]>>) \o Without(e, i + 1, D)

\* the latest operation merged a partial that maps existing indices to the
\* delete sentinel, and nothing else, onto the root array
DeletesOnly ==
    /\ KeyedMerge /\ last.path = RootPath
    /\ \A i \in DOMAIN last.arg.f : last.arg.f[i] = none

\* C15, as stated: a keyed merge onto an array that maps a set D of existing
\* indices, single-digit and multi-digit alike, to the delete sentinel
\* leaves the array without exactly the elements at the indices in D, the
\* others in their order.
C15_DeletesExactlyD ==
    [][(/\ IsArray(value) /\ DeletesOnly'
        /\ DOMAIN last'.arg.f \subseteq 0..(Len(value.e) - 1))
           => value'.e = Without(value.e, 0, DOMAIN last'.arg.f)]_vars

\* C16: an array of n > 0 elements merged onto an array of m elements
\* leaves the m elements followed by the n elements in their order, and the
\* descriptor tags exactly the indices m..m+n-1 as inserted.
C16_ArrayAppend ==
    [][(/\ IsArray(value)
        /\ last'.op = "merge" /\ last'.err = NoError
        /\ IsArray(last'.arg) /\ Len(last'.arg.e) > 0)
           => (/\ value'.e = value.e \o last'.arg.e
               /\ last'.ad.has
               /\ DOMAIN last'.ad.actions =
                      Len(value.e)..(Len(value.e) + Len(last'.arg.e) - 1)
               /\ \A i \in DOMAIN last'.ad.actions :
                      last'.ad.actions[i] = "I")]_vars

\* C16's case: two elements were appended to an array that an earlier merge
\* had changed
C16_Witness ==
    /\ last.op = "merge" /\ last.err = NoError
    /\ IsArray(last.arg) /\ Len(last.arg.e) = 2
    /\ IsArray(value) /\ Len(value.e) # ArrayLen + 2
    /\ edition = 2
    /\ DOMAIN last.ad.actions = {Len(value.e) - 2, Len(value.e) - 1}

-----------------------------------------------------------------------------
(* Notification: two components render and read the same store while       *)
(* values are written and merged through the global handle.                *)

NotifyPartials == {Partial(("a" :> Prim(2))), Partial(("a" :> Prim(2)) @@ ("b" :> Prim(2)))}

NextNotify ==
    \/ \E c \in Consumers : UseHookstate(c)
    \/ \E c \in Consumers, path \in Paths : Get(c, path)
    \/ \E path \in Paths \ {RootPath} : \E v \in Prims : Set(Global, path, Prim(v))
    \/ \E m \in NotifyPartials : Merge(Global, RootPath, m)

InitNotify == InitWith(InitialObject, NotifySteps)

SpecNotify == InitNotify /\ [][NextNotify]_vars

\* the places of the log where the event e of consumer c stands
Events(e, c) == {i \in DOMAIN last.log : last.log[i] = [e |-> e, c |-> c]}

\* C18: in every write the callback of each consumer that was added to the
\* collected actions is invoked exactly once, the callback of no other
\* consumer is invoked, and every invocation comes after every subscriber's
\* onSet and every add() of that write.
C18_CallbackOnceAfterFanOut ==
    /\ \A c \in Consumers :
          Cardinality(Events("call", c)) = IF Events("add", c) # {} THEN 1 ELSE 0
    /\ \A i, j \in DOMAIN last.log :
          last.log[i].e = "call" /\ last.log[j].e # "call" => j < i

\* a merge of two keys fanned out per key: c1, which read both, was added
\* twice and called once, after c2 was asked for both keys
C18_Witness ==
    /\ last.op = "merge"
    /\ Cardinality(Events("add", "c1")) = 2
    /\ Cardinality(Events("call", "c1")) = 1
    /\ Cardinality(Events("onSet", "c2")) = 2
    /\ Cardinality(Events("call", "c2")) = 1

-----------------------------------------------------------------------------
(* Scoped state: the component c1 uses the store and hands the nested      *)
(* handle state.a to the component c2, which uses it as a scoped state.    *)

ScopedPath == <<"a">>

ScopedInputs(path) ==
    IF path = RootPath THEN {Obj(0, [k \in Keys |-> Prim(2)])} ELSE {Prim(1), Prim(2)}

NextScoped ==
    \/ UseHookstate("c1")
    \/ Unmount("c1")
    \/ Nested("c1", ScopedPath)
    \/ UseHookstateScoped("c2", "c1", ScopedPath)
    \/ UnmountScoped("c2")
    \/ GetScoped("c2")
    \/ \E path \in {RootPath, ScopedPath} : \E v \in ScopedInputs(path) :
          Set(Global, path, v)

InitScoped == InitWith(InitialObject, ScopedSteps)

SpecScoped == InitScoped /\ [][NextScoped]_vars

\* C19: once a consumer is unmounted, its node is subscribed neither to the
\* store nor to a node of another consumer, and a write adds its callback to
\* no collected actions and invokes it in no write.
C19_UnmountedIsSilent ==
    \A c \in Consumers :
        mounted[c] = "unmounted" =>
            /\ c \notin subs
            /\ \A h \in Handles, q \in Paths : c \notin nodes[h][q].subscribers
            /\ \A i \in DOMAIN last.log : last.log[i].c = c => last.log[i].e = "onSet"

-----------------------------------------------------------------------------
(* Proxies: properties are assigned on state handles and on the value      *)
(* proxies that get() returns, between renders, reads and writes.          *)

ProxyInputs(path) ==
    IF path = RootPath THEN {Prim(1), Obj(0, [k \in Keys |-> Prim(2)])} ELSE {Prim(2)}

NextProxy ==
    \/ \E c \in Solo : UseHookstate(c)
    \/ \E h \in SoloHandles, path \in Paths : Get(h, path)
    \/ \E h \in SoloHandles, path \in Paths : \E v \in ProxyInputs(path) : Set(h, path, v)
    \/ \E h \in SoloHandles, path \in Paths, key \in PropertyKeys : AssignValue(h, path, key)
    \/ \E h \in SoloHandles, path \in Paths, key \in PropertyKeys : AssignState(h, path, key)

InitProxy == InitWith(InitialObject, ProxySteps)

SpecProxy == InitProxy /\ [][NextProxy]_vars

\* C21 as stated: every property assignment on a state handle or on a value
\* proxy, whatever the key, throws the direct-mutation error and leaves the
\* store's value, its edition and the stored objects as they were.
C21_EveryAssignmentFails ==
    [][last'.op = "assign"
           => (/\ last'.err \in {"SetProperty_State", "SetProperty_Value"}
               /\ value' = value /\ edition' = edition /\ hidden' = hidden)]_vars

\* C21: an assignment on a state handle, and an assignment of a string key
\* on a value proxy, throw the direct-mutation error and leave the store's
\* value, its edition and the stored objects as they were; the assignment of
\* a symbol key on a value proxy returns and puts the property on the wrapped
\* object, with the path's value and the edition as they were.
C21_AssignmentFails ==
    [][last'.op = "assign"
           => (/\ value' = value /\ edition' = edition
               /\ IF last'.kind = "value" /\ last'.arg = SymbolKey
                  THEN /\ last'.err = NoError
                       /\ hidden' = hidden \cup
                              {Identity(nodes'[last'.h][last'.path].valueUsed.v)}
                  ELSE /\ last'.err = IF last'.kind = "value"
                                      THEN "SetProperty_Value" ELSE "SetProperty_State"
                       /\ hidden' = hidden)]_vars

\* a string key was assigned on the value proxy of a written root object
C21_Witness ==
    /\ last.op = "assign" /\ last.kind = "value" /\ last.arg \in Keys
    /\ last.err = "SetProperty_Value"
    /\ edition > 0 /\ hidden = {}

-----------------------------------------------------------------------------
\* the value v holds the last key of path
HoldsKey(v, path) == v # none /\ HasKey(GetAt(v, Parent(path)), LastKey(path))

\* C22: every argument handed to the write-callbacks names the written
\* path; it has no new value exactly when the write left the root absent or
\* removed the key, and no previous value exactly when the root was absent
\* before or the key was not there before.
C22_CallbackFields ==
    [][\A i \in DOMAIN last'.calls :
          LET arg == last'.calls[i]
          IN  /\ arg.path = last'.path
              /\ (arg.value = Absent) =
                     IF arg.path = RootPath THEN value' = none
                     ELSE ~HoldsKey(value', arg.path)
              /\ (arg.state = Absent) = (arg.path = RootPath /\ value' = none)
              /\ (arg.previous = Absent) =
                     IF arg.path = RootPath THEN value = none
                     ELSE ~HoldsKey(value, arg.path)]_vars

\* a write-callback was told of a root write that made the root pending
\* while it held a value: a previous value and no new one
C22_Witness ==
    /\ last.op = "set" /\ last.path = RootPath
    /\ Len(last.calls) = 1
    /\ last.calls[1].value = Absent
    /\ last.calls[1].previous # Absent
    /\ value = none

-----------------------------------------------------------------------------
\* C23 as stated: the root value is absent if and only if a pending value
\* is installed.
C23_AbsentIffPending == (value = none) <=> (promised # 0)

\* C23: whenever the root value is absent a pending value is installed; a
\* pending value that stays installed beside a present root value is one
\* that no longer blocks root writes (it has a resolver or is fulfilled).
C23_AbsentHasPending ==
    /\ value = none => promised # 0
    /\ promised # 0 /\ value # none => ~IsBlocked(StoreRec)

\* a write made the root absent and installed a pending value
C23_Witness ==
    /\ last.op = "set" /\ last.err = NoError
    /\ value = none /\ promised # 0 /\ edition > 0

-----------------------------------------------------------------------------
\* the latest operation was a root write of an ordinary value on a store
\* that was not destroyed
OrdinaryRootWrite ==
    /\ edition # DestroyedEdition
    /\ last'.op = "set" /\ last'.path = RootPath /\ Ordinary(last'.arg)

\* C24 as stated: a root write of an ordinary value fails with
\* SetStateWhenPromised when the installed pending value has no source
\* promise and is not fulfilled.
C24_NoSourceBlocks ==
    [][(/\ OrdinaryRootWrite
        /\ promised # 0
        /\ ~wrappers[promised].source
        /\ ~wrappers[promised].fullfilled)
           => last'.err = "SetStateWhenPromised"]_vars

\* C24: a root write of an ordinary value fails with SetStateWhenPromised
\* exactly when the installed pending value has no recorded resolver, which
\* is when it was made from a source promise, and is not fulfilled.
C24_SourceBlocks ==
    [][OrdinaryRootWrite
           => (last'.err = "SetStateWhenPromised") =
                  (/\ promised # 0
                   /\ ~wrappers[promised].resolver
                   /\ ~wrappers[promised].fullfilled)]_vars

\* a number was refused at a root that waits for a source promise installed
\* by a write
C24_Witness ==
    /\ last.op = "set" /\ last.path = RootPath /\ last.arg = Prim(1)
    /\ last.err = "SetStateWhenPromised"
    /\ promised # 0 /\ ~wrappers[promised].resolver /\ ~wrappers[promised].ctor

-----------------------------------------------------------------------------
\* C25: on a store that is not destroyed, when the root is absent and the
\* pending value has no source promise and a recorded resolver, a root write
\* of a present ordinary value succeeds: the root becomes that value, the
\* resolver is called, the edition grows by one and promised reads false.
C25_WriteCompletesPending ==
    [][(/\ OrdinaryRootWrite
        /\ value = none /\ promised # 0
        /\ ~wrappers[promised].source /\ wrappers[promised].resolver)
           => (/\ last'.err = NoError
               /\ value' = last'.arg
               /\ promised' = promised
               /\ ~wrappers[promised].resolved /\ wrappers'[promised].resolved
               /\ edition' = edition + 1
               /\ ~Pending')]_vars

\* an object was written at a root that a write of the delete sentinel had
\* made absent, and the resolver of that pending value was called
C25_Witness ==
    /\ last.op = "set" /\ last.path = RootPath /\ IsContainer(last.arg)
    /\ last.err = NoError /\ value = last.arg
    /\ promised # 0 /\ ~wrappers[promised].source /\ ~wrappers[promised].ctor
    /\ wrappers[promised].resolved

-----------------------------------------------------------------------------
\* the latest operation was a nested write that reached Store.set and
\* returned
NestedWrite ==
    /\ last'.op \in {"set", "merge"} /\ last'.path # RootPath
    /\ last'.err = NoError /\ last'.kind # "skip"

\* C26 as stated: every nested write that does not fail adds one to the
\* edition and fires the write-callbacks once, the removal of an absent key
\* included.
C26_EveryBranchCounts ==
    [][NestedWrite => edition' = edition + 1 /\ Len(last'.calls) = 1]_vars

\* C26: a nested write that does not fail adds one to the edition and fires
\* the write-callbacks once when it updates, removes or inserts a key; the
\* removal of an absent key changes neither the value nor the edition, fires
\* no write-callback and returns the descriptor of the written path.
C26_BranchesCount ==
    [][NestedWrite =>
          IF ~HoldsKey(value, last'.path) /\ last'.arg = none
          THEN /\ last'.kind = "noop"
               /\ value' = value /\ edition' = edition
               /\ last'.calls = <<>>
               /\ last'.ad = Descriptor(last'.path)
          ELSE /\ last'.kind \in {"U", "D", "I"}
               /\ edition' = edition + 1
               /\ Len(last'.calls) = 1]_vars

\* the key b was removed by a merge, and then removed again by a set
C26_Witness ==
    /\ last.op = "set" /\ last.path = <<"b">> /\ last.arg = none
    /\ last.kind = "noop" /\ last.err = NoError
    /\ edition = 1 /\ ~HoldsKey(value, <<"b">>)

-----------------------------------------------------------------------------
(* Array elements: one component renders and reads an array and handles of *)
(* its elements, while elements are written, removed and merged.  No write *)
(* is made behind the end of the array, so the array keeps no holes.       *)

\* partials that remove or replace elements at one-digit and two-digit indices
ElementPartials ==
    {Partial(f) : f \in UNION {[K -> {none}] : K \in (SUBSET {2, ArrayLen - 2}) \ {{}}}}
        \cup {Partial((2 :> Prim(0)))}

\* state[index].set(v) through handle h, for an index of the array or the
\* one behind its last element
SetElement(h, path, v) ==
    /\ Number(LastKey(path)) <= Len(value.e)
    /\ Set(h, path, v)

NextIndex ==
    \/ \E c \in Solo : UseHookstate(c)
    \/ \E h \in SoloHandles, path \in {RootPath} \cup IndexPaths : Get(h, path)
    \/ \E h \in SoloHandles, path \in IndexPaths : \E v \in {Prim(0), none} :
          SetElement(h, path, v)
    \/ \E h \in SoloHandles : \E m \in ElementPartials : Merge(h, RootPath, m)

InitIndex == InitWith(InitialArray, IndexSteps)

SpecIndex == InitIndex /\ [][NextIndex]_vars

\* the containers v and w hold the same under every key but k
SameBut(v, w, k) ==
    IF IsArray(v)
    THEN /\ IsArray(w)
         /\ \A i \in (DOMAIN v.e \cup DOMAIN w.e) \ {Number(k) + 1} :
               i \in DOMAIN v.e /\ i \in DOMAIN w.e /\ v.e[i] = w.e[i]
    ELSE /\ IsContainer(w)
         /\ \A j \in (DOMAIN v.f \cup DOMAIN w.f) \ {k} :
               j \in DOMAIN v.f /\ j \in DOMAIN w.f /\ v.f[j] = w.f[j]

\* the key of the written path, as the action map of its container names it
ActionKey(v, path) ==
    IF IsArray(GetAt(v, Parent(path))) THEN Number(LastKey(path)) ELSE LastKey(path)

\* C27: a nested write that does not fail, of a value that is not the delete
\* sentinel to an existing key, replaces it, leaves the other keys alone and
\* returns the descriptor of the written path without action map; of the
\* delete sentinel to an existing key, removes the key (an array loses the
\* element and the later ones move down by one) and returns the descriptor
\* of the parent path with the key tagged "D"; of another value to an absent
\* key, sets it and returns the parent's descriptor with the key tagged "I".
C27_NestedWriteClasses ==
    [][(NestedWrite /\ last'.op = "set") =>
          LET path == last'.path
              target == GetAt(value, Parent(path))
              after == GetAt(value', Parent(path))
              E == IF IsArray(target) THEN {Number(LastKey(path))} ELSE {}
          IN  IF HoldsKey(value, path) /\ last'.arg # none
              THEN /\ GetAt(value', path) = last'.arg
                   /\ SameBut(target, after, LastKey(path))
                   /\ last'.ad = Descriptor(path)
              ELSE IF HoldsKey(value, path)
              THEN /\ IF IsArray(target)
                      THEN after.e = Without(target.e, 0, E)
                      ELSE /\ ~HoldsKey(value', path)
                           /\ SameBut(target, after, LastKey(path))
                   /\ last'.ad.path = Parent(path) /\ last'.ad.has
                   /\ last'.ad.actions = (ActionKey(value, path) :> "D")
              ELSE last'.arg # none =>
                   /\ GetAt(value', path) = last'.arg
                   /\ SameBut(target, after, LastKey(path))
                   /\ last'.ad.path = Parent(path) /\ last'.ad.has
                   /\ last'.ad.actions = (ActionKey(value, path) :> "I")]_vars

\* the element at index 2 was removed from the array: one element less, and
\* the element that was at index 3 is now at index 2
C27_Witness ==
    /\ last.op = "set" /\ last.path = <<"2">> /\ last.arg = none
    /\ last.err = NoError /\ last.kind = "D"
    /\ IsArray(value) /\ Len(value.e) = ArrayLen - 1
    /\ value.e[3] = Prim(3)

-----------------------------------------------------------------------------
\* the smallest index of a set of indices
MinIndex(S) == CHOOSE i \in S : \A j \in S : i <= j

\* C28: when a write on the root array returns an action map with at least
\* one delete, the root node of every mounted consumer that had read the
\* array keeps no used child at an index greater than or equal to the
\* smallest deleted index, and none at an index that the action map names.
C28_LaterChildrenDropped ==
    [][\A c \in Consumers :
          (/\ last'.op \in {"set", "merge"} /\ last'.err = NoError
           /\ last'.ad.has /\ last'.ad.indexed /\ last'.ad.path = RootPath
           /\ Deleted(last'.ad.actions) # {}
           /\ c \in subs /\ mounted[c] = "mounted"
           /\ IsArray(nodes[c][RootPath].valueSource)
           /\ nodes[c][RootPath].valueUsed # ValueUnusedMarker)
              => \A k \in nodes'[c][RootPath].childrenUsed :
                    /\ Number(k) < MinIndex(Deleted(last'.ad.actions))
                    /\ Number(k) \notin DOMAIN last'.ad.actions]_vars

-----------------------------------------------------------------------------
\* the paths of the keys that the action map of the latest write names
NamedPaths == {Append(last.ad.path, k) : k \in DOMAIN last.ad.actions}

-----------------------------------------------------------------------------
\* the write reaches the node of the consumer p at path, which p did not read
\* and to which the scoped consumer c is subscribed
ReachesUnread(p, c, path) ==
    /\ p \in subs /\ mounted[p] = "mounted" /\ mounted[c] = "mounted"
    /\ ~nodes[p][RootPath].downgraded
    /\ LastKey(path) \in nodes[p][RootPath].childrenUsed
    /\ nodes[p][path].valueUsed = ValueUnusedMarker
    /\ c \in nodes[p][path].subscribers

-----------------------------------------------------------------------------
(* Fan-out: the component c1 uses the store and reads state.a or only      *)
(* obtains its handle; the component c2 uses that handle as a scoped state. *)

NextFan ==
    \/ UseHookstate("c1")
    \/ Nested("c1", ScopedPath)
    \/ Get("c1", ScopedPath)
    \/ UseHookstateScoped("c2", "c1", ScopedPath)
    \/ GetScoped("c2")
    \/ \E v \in ScopedInputs(ScopedPath) : Set(Global, ScopedPath, v)

InitFan == InitWith(InitialObject, FanSteps)

SpecFan == InitFan /\ [][NextFan]_vars

\* a write to state.a is propagated and reaches the node of c1 at a, to which
\* the scoped consumer c2 is subscribed
ReachesSubscribed ==
    /\ last'.op = "set" /\ last'.err = NoError /\ last'.path = ScopedPath
    /\ ~last'.ad.null
    /\ "c1" \in subs
    /\ "a" \in nodes["c1"][RootPath].childrenUsed
    /\ "c2" \in nodes["c1"][ScopedPath].subscribers

\* C31 as stated: whenever a propagated write reaches a node of the written
\* path, every node subscribed to that node is visited, also when the node
\* itself was found affected.
C31_AlwaysVisited ==
    [][ReachesSubscribed => Events("onSet", "c2")' # {}]_vars

\* C31: every top-level subscriber is visited by every propagated write; a
\* node subscribed to a node of the written path is visited exactly when
\* that node was not itself affected, that is when its value was not read.
C31_VisitedUnlessAffected ==
    [][/\ (last'.op = "set" /\ last'.err = NoError /\ ~last'.ad.null)
              => \A c \in subs : Events("onSet", c)' # {}
       /\ ReachesSubscribed
              => (Events("onSet", "c2")' # {}) =
                     (nodes["c1"][ScopedPath].valueUsed = ValueUnusedMarker)]_vars

\* a write to state.a found the node of c1 at a affected, and the scoped
\* consumer subscribed to that node, which read state.a too, was not visited
C31_Witness ==
    /\ last.op = "set" /\ last.err = NoError /\ last.path = ScopedPath
    /\ "c2" \in nodes["c1"][ScopedPath].subscribers
    /\ mounted["c2"] = "mounted" /\ ScopedPath \in reads["c2"]
    /\ "c1" \in last.notified
    /\ Events("onSet", "c1") # {}
    /\ Events("onSet", "c2") = {}

-----------------------------------------------------------------------------
\* path p is a prefix of path q
IsPrefix(p, q) == Len(p) <= Len(q) /\ SubSeq(q, 1, Len(p)) = p

\* the node of the subscribed, mounted consumer c at p is downgraded, its
\* value was read, and it is still held by the children cache of the root
DowngradedRead(c, p) ==
    /\ c \in subs /\ mounted[c] = "mounted"
    /\ nodes[c][p].downgraded
    /\ nodes[c][p].valueUsed # ValueUnusedMarker
    /\ p # RootPath => LastKey(p) \in nodes[c][RootPath].childrenUsed

-----------------------------------------------------------------------------
\* C33: in every state, a node whose cached edition is the store's current
\* edition holds, as its cached snapshot, the store's current value at the
\* node's path.
C33_CacheValid ==
    \A h \in Handles, p \in TreePaths :
        (nodes[h][p].exists /\ nodes[h][p].valueEdition = edition)
            => nodes[h][p].valueSource = StoreGet(StoreRec, p)

-----------------------------------------------------------------------------
(* Key enumeration: Object.keys() and the in operator on a state handle    *)
(* and on the value proxy that the node's latest get() returned, between   *)
(* writes that replace the root object and merges that change it in place. *)

\* the ownKeys trap of proxyWrap on the target targetReal
ownKeys(targetReal) ==
    IF IsArray(targetReal)
    THEN {IndexName(i - 1) : i \in DOMAIN targetReal.e} \cup {"length"}
    ELSE IF IsContainer(targetReal) THEN DOMAIN targetReal.f
    ELSE {}

\* the has trap of proxyWrap on the target targetReal
has(targetReal, p) ==
    IF p = SymbolKey THEN FALSE
    ELSE IF IsContainer(targetReal) \/ IsArray(targetReal) THEN HasKey(targetReal, p)
    ELSE FALSE

\* what the two traps answer on targetReal
Enumerated(targetReal) ==
    [t |-> "keys", own |-> ownKeys(targetReal),
     has |-> {p \in PropertyKeys : has(targetReal, p)}]

\* a faulty value proxy: the target is read from the store at each use
targetGetterLive(currentValue, path) == StoreGet(StoreRec, path)

\* the targetGetter of a value proxy, () => currentValue: the object the
\* proxy was created over, as it now is; it is the store's object at path as
\* long as no write replaced it
targetGetter(currentValue, path) ==
    IF /\ StoreGet(StoreRec, path).t = currentValue.t
       /\ StoreGet(StoreRec, path).id = currentValue.id
    THEN StoreGet(StoreRec, path)
    ELSE currentValue

\* Object.keys(state.<path>) and key in state.<path> through handle h: the
\* targetGetter of the state proxy calls this.get()
EnumerateState(h, path) ==
    /\ Usable(h)
    /\ \E fin \in {getCall(Navigate(nodes[h], RootPath, path, IsMounted(h), StoreRec),
                           path, IsMounted(h), StoreRec)} :
          ReadDone(h, fin, "stateKeys", path,
                   IF fin.err = NoError THEN Enumerated(fin.ret.v) ELSE Absent,
                   fin.err = NoError)

\* Object.keys(v) and key in v, where v is the value proxy that the latest
\* get() of the node of handle h at path returned
EnumerateValue(h, path) ==
    /\ Usable(h)
    /\ nodes[h][path].exists
    /\ nodes[h][path].valueUsed # ValueUnusedMarker
    /\ nodes[h][path].valueUsed.proxy
    /\ ReadDone(h, NodeResult(nodes[h], NoError, Absent), "valueKeys", path,
                Enumerated(targetGetter(nodes[h][path].valueUsed.v, path)), FALSE)

KeysInputs == {Obj(0, [k \in K |-> Prim(2)]) : K \in {{"a"}, {"a", "b"}}}
KeysPartials == {Partial(("b" :> none)), Partial(("b" :> Prim(2)))}

NextKeys ==
    \/ \E c \in Solo : UseHookstate(c)
    \/ \E h \in SoloHandles : Get(h, RootPath)
    \/ \E h \in SoloHandles : \E v \in KeysInputs : Set(h, RootPath, v)
    \/ \E m \in KeysPartials : Merge(Global, RootPath, m)
    \/ \E h \in SoloHandles : EnumerateState(h, RootPath)
    \/ \E h \in SoloHandles : EnumerateValue(h, RootPath)

InitKeys == InitWith(InitialObject, KeysSteps)

SpecKeys == InitKeys /\ [][NextKeys]_vars

-----------------------------------------------------------------------------
\* C35: a set or merge call that throws leaves the root value, the edition
\* and the pending value as they were before the call.
C35_FailedWriteChangesNothing ==
    [][(last'.op \in {"set", "merge"} /\ last'.err # NoError)
           => /\ value' = value
              /\ edition' = edition
              /\ promised' = promised
              /\ wrappers' = wrappers]_vars

-----------------------------------------------------------------------------
\* C36: a set or merge call queues re-render callbacks only if it advanced
\* the edition; a call that changes nothing notifies no consumer.
C36_NotifiesOnlyOnAdvance ==
    [][(last'.op \in {"set", "merge"} /\ edition' = edition)
           => /\ last'.notified = {}
              /\ \A i \in DOMAIN last'.log : last'.log[i].e = "onSet"]_vars

-----------------------------------------------------------------------------
(* Plugins: a plugin with write- and destroy-callbacks is attached, once   *)
(* or repeatedly, while a component reads state.a and the store is written *)
(* and destroyed.                                                          *)

PluginPartials == {Partial(("a" :> Prim(2))), Partial(("b" :> none))}

NextPlugin ==
    \/ \E p \in Plugins : AttachPlugin(Global, p)
    \/ UseHookstate("c1")
    \/ Get("c1", <<"a">>)
    \/ \E v \in Prims : Set(Global, <<"a">>, Prim(v))
    \/ \E m \in PluginPartials : Merge(Global, RootPath, m)
    \/ Destroy

InitPlugin == InitWith(InitialObject, PluginSteps)

SpecPlugin == InitPlugin /\ [][NextPlugin]_vars

\* the places of the effects of the latest write where an event e stands
Effects(e) == {i \in DOMAIN last.fx : last.fx[i].e = e}

\* the latest operation was a set or merge call that changed the store
CommittedWrite ==
    /\ last.op \in {"set", "merge"} /\ last.err = NoError
    /\ ~last.ad.null /\ last.kind # "noop"

\* C37: for every committed set or merge, the value and the edition have
\* changed before any callback runs, each registered write-callback is
\* invoked exactly once, and every subscriber's onSet, every add() and every
\* re-render callback comes after the write-callbacks; every callback of
\* the write runs while the store holds the new value and the new edition.
C37_EffectOrder ==
    [][CommittedWrite'
          => /\ edition' = edition + 1
             /\ \A i \in DOMAIN last'.fx :
                   last'.fx[i].edition = edition' /\ last'.fx[i].value = value'
             /\ \A p \in Plugins :
                   Cardinality({i \in Effects("cb")' : last'.fx[i].c = p})
                       = IF p \in plugins.ids THEN 1 ELSE 0
             /\ \A i \in Effects("cb")' :
                   \A j \in (DOMAIN last'.fx) \ Effects("cb")' : i < j
             /\ \A i \in Effects("onSet")', j \in Effects("call")' : i < j]_vars

\* a write to state.a invoked the write-callback of the plugin and then the
\* re-render callback of the component that read state.a
C37_Witness ==
    /\ CommittedWrite
    /\ last.path = <<"a">>
    /\ \E i \in Effects("cb"), j \in Effects("call") :
          /\ i < j
          /\ last.fx[i].c = "p1" /\ last.fx[j].c = "c1"
          /\ last.fx[i].edition = edition /\ last.fx[j].edition = edition

-----------------------------------------------------------------------------
\* C40: attaching a plugin whose id is registered invokes init no more and
\* registers no callback again: init ran once for each registered id, every
\* committed write invokes the plugin's write-callback exactly once, and
\* every destroy call invokes its destroy-callback exactly once.
C40_RegisterOnce ==
    [][/\ (last'.op = "attach" /\ last'.arg \in plugins.ids) => plugins' = plugins
       /\ \A p \in plugins'.ids :
             /\ Count(plugins'.inits, p) = 1
             /\ Count(setSubscribers', p) = 1
             /\ Count(destroySubscribers', p) = 1
       /\ CommittedWrite'
             => \A p \in plugins.ids :
                   Cardinality({i \in Effects("cb")' : last'.fx[i].c = p}) = 1
       /\ last'.op = "destroy"
             => \A p \in plugins.ids :
                   Len(destroyCalls'[p]) = Len(destroyCalls[p]) + 1]_vars

\* a plugin was attached again under its registered id: init ran once and
\* its callbacks are registered once
C40_Witness ==
    /\ last.op = "attach" /\ last.kind = "known" /\ last.arg = "p1"
    /\ plugins.ids = {"p1"}
    /\ plugins.inits = <<"p1">>
    /\ setSubscribers = <<"p1">>
    /\ destroySubscribers = <<"p1">>

-----------------------------------------------------------------------------
\* C38: once the store is destroyed its edition stays the destroyed marker
\* whatever is called, and the fulfilment or rejection of a promise changes
\* neither the root value nor the edition, fires no write-callback, asks no
\* subscriber and notifies no consumer.
C38_DestroyedForever ==
    [][edition = DestroyedEdition
          => /\ edition' = DestroyedEdition
             /\ last'.op \in {"fulfil", "reject"}
                   => /\ value' = value
                      /\ last'.calls = <<>>
                      /\ last'.fx = <<>>
                      /\ last'.notified = {}]_vars

\* the promise that was the store's pending value when the store was
\* destroyed has settled, with a mounted consumer subscribed, and the root
\* is still absent
C38_Witness ==
    /\ edition = DestroyedEdition
    /\ last.op \in {"fulfil", "reject"} /\ last.w = promised
    /\ value = none
    /\ \E c \in Solo : c \in subs /\ mounted[c] = "mounted"

-----------------------------------------------------------------------------
\* state.set(none) was called on the root handle while the root was absent
AbsentSetToNone ==
    /\ last'.op = "set" /\ last'.path = RootPath /\ last'.arg = none
    /\ value = none

\* C39: set(none) on an absent root installs no pending value, changes
\* neither the value nor the edition, asks no subscriber and notifies
\* nobody; the source promise that is outstanding stays the store's
\* pending value, and its fulfilment with a value is then applied as the
\* root value.
C39_AbsentSetNoneIsNoOp ==
    [][/\ AbsentSetToNone
             => /\ UNCHANGED <<value, edition, promised, wrappers>>
                /\ last'.calls = <<>>
                /\ last'.fx = <<>>
                /\ last'.notified = {}
       /\ (/\ last'.op = "fulfil" /\ last'.w = promised
           /\ edition # DestroyedEdition
           /\ last'.arg # none)
             => /\ value' = last'.arg
                /\ promised' = 0]_vars

\* set(none) returned while the root was absent and the source promise of
\* the store's pending value had not settled
C39_Witness ==
    /\ last.op = "set" /\ last.path = RootPath /\ last.arg = none
    /\ last.kind = "skip"
    /\ value = none /\ edition = 0
    /\ promised = 1 /\ Len(wrappers) = 1
    /\ wrappers[1].source /\ ~wrappers[1].settled

====
